---- MODULE Spec2Model ----
(***************************************************************************)
(* Singularity Launcher: the container poller (lib/containers.py,          *)
(* ContainerManager) and the calls main.py makes on it; the hardware and   *)
(* engine detection of lib/system.py; the compose command; the "Save Path" *)
(* handler of lib/ui.py; and the script runs of main.py.                   *)
(*                                                                         *)
(* The manager is a module-level singleton shared by every UI session of   *)
(* the process.  Sessions call start(), stop() and the mutating operations *)
(* from their own threads; start() spawns a daemon thread running          *)
(* _update_loop.  Every statement that reads or writes a shared attribute  *)
(* (running, update_thread, containers, update_callbacks) is one step.     *)
(***************************************************************************)
EXTENDS Integers, Sequences, FiniteSets, TLC

(* ------------------------------ bounds -------------------------------- *)

\* Loop threads ever created by start().
MaxThreads == 2

\* Lines in one crafted `ps` output.
MaxLines == 3

\* Registered update callbacks.
MaxCallbacks == 2

\* Calls of one detection function made in a row.
MaxCalls == 2

\* Update cycles of the performance monitor's thread.
MaxCycles == 2

\* Tasks handed to AsyncTaskManager.submit_task.
MaxTasks == 2

\* Worker threads the AsyncTaskManager ever creates.
MaxWorkers == 2

\* The last reading of the clock, in seconds.
MaxTime == 2

Sessions == {"s1", "s2"}
ThreadIds == 1 .. MaxThreads
Callbacks == {"cb1"}

\* update_thread = None
None == 0

\* self.update_interval, in seconds
UpdateInterval == 2

\* join(timeout=5), in seconds
JoinTimeout == 5

(* --------------------------- text as characters ------------------------ *)

\* Python's `sub in s` on strings.
Contains(sub, s) ==
    \E i \in 1 .. (Len(s) - Len(sub) + 1) : SubSeq(s, i, i + Len(sub) - 1) = sub

TxtUp == <<"U", "p">>
TxtExited == <<"E", "x", "i", "t", "e", "d">>
TxtDead == <<"D", "e", "a", "d">>

\* Status texts an engine prints in the STATUS column, and a State-style word.
StUp2h == <<"U", "p", " ", "2", "h">>
StExited0 == <<"E", "x", "i", "t", "e", "d", " ", "(", "0", ")">>
StDead == <<"D", "e", "a", "d">>
StLowerRunning == <<"r", "u", "n", "n", "i", "n", "g">>

(* ---------------------- one line of the `ps` output --------------------- *)

\* A line of `<engine> ps -a --format '{{json .}}'`:
\*   kind "blank"     an empty line inside the output;
\*   kind "malformed" json.loads raises JSONDecodeError;
\*   kind "mistyped"  valid JSON that is no container object (processing it raises);
\*   kind "object"    a JSON object; keys is the set of keys it carries.
Obj(keys, id, names, status) ==
    [kind |-> "object", keys |-> keys, id |-> id, names |-> names, status |-> status]

LineBlank == [kind |-> "blank"]
LineMalformed == [kind |-> "malformed"]
LineMistyped == [kind |-> "mistyped"]
LineA_Up == Obj({"ID", "Names", "Status"}, "a", <<"/", "w">>, StUp2h)
LineA_Exited == Obj({"ID", "Names", "Status"}, "a", <<"w">>, StExited0)
LineB_Exited == Obj({"Id", "Name", "Status"}, "b", <<"d">>, StExited0)
LineB_Dead == Obj({"ID", "Names", "Status"}, "b", <<"d">>, StDead)
LineNoId == Obj({"Status"}, "", <<>>, StLowerRunning)

Lines ==
    { LineBlank, LineMalformed, LineMistyped, LineA_Up, LineA_Exited, LineB_Exited,
      LineB_Dead, LineNoId }

\* container_info.get('ID', container_info.get('Id', ''))
ContainerIdOf(info) ==
    IF "ID" \in info.keys \/ "Id" \in info.keys THEN info.id ELSE ""

\* container_info.get('Names', container_info.get('Name', '')), leading slash removed
ContainerNameOf(info) ==
    LET raw == IF "Names" \in info.keys \/ "Name" \in info.keys THEN info.names ELSE <<>>
    IN  IF Len(raw) > 0 /\ Head(raw) = "/" THEN Tail(raw) ELSE raw

StatusOf_KeepEngineWord(info) ==
    LET status == IF "Status" \in info.keys THEN info.status ELSE <<>>
    IN  IF Contains(TxtUp, status) THEN "running"
        ELSE IF Contains(TxtExited, status) \/ Contains(TxtDead, status) THEN "exited"
        ELSE "unknown"

\* status = container_info.get('Status', ''), normalised to running/stopped/unknown
StatusOf(info) ==
    LET status == IF "Status" \in info.keys THEN info.status ELSE <<>>
    IN  IF Contains(TxtUp, status) THEN "running"
        ELSE IF Contains(TxtExited, status) \/ Contains(TxtDead, status) THEN "stopped"
        ELSE "unknown"

\* new_containers[container_id] = {...}
Store(acc, key, rec) ==
    [k \in (DOMAIN acc) \cup {key} |-> IF k = key THEN rec ELSE acc[k]]

RecordOf(info, rt) ==
    [id |-> ContainerIdOf(info), name |-> ContainerNameOf(info),
     status |-> StatusOf(info), runtime |-> rt]

EmptyMap == [k \in {} |-> 0]

RECURSIVE ParseLines_StopAtBadLine(_, _, _)
ParseLines_StopAtBadLine(lines, acc, rt) ==
    IF lines = <<>> THEN acc
    ELSE LET line == Head(lines)
         IN  IF line.kind = "blank" THEN ParseLines_StopAtBadLine(Tail(lines), acc, rt)
             ELSE IF line.kind \in {"malformed", "mistyped"} THEN acc
             ELSE ParseLines_StopAtBadLine(Tail(lines),
                                           Store(acc, ContainerIdOf(line), RecordOf(line, rt)), rt)

\* The for-loop over result.stdout.strip().split('\n'): a blank line is skipped, a
\* line that raises (JSONDecodeError or any other exception) is logged and skipped,
\* every other line stores one record under its container id.
RECURSIVE ParseLines(_, _, _)
ParseLines(lines, acc, rt) ==
    IF lines = <<>> THEN acc
    ELSE LET line == Head(lines)
         IN  IF line.kind = "blank" THEN ParseLines(Tail(lines), acc, rt)
             ELSE IF line.kind \in {"malformed", "mistyped"} THEN ParseLines(Tail(lines), acc, rt)
             ELSE ParseLines(Tail(lines), Store(acc, ContainerIdOf(line), RecordOf(line, rt)), rt)

UpdateContainersResult_ClearOnError(cur, rt, res, out) ==
    IF rt = "none" THEN cur
    ELSE IF res # "ok" THEN EmptyMap
    ELSE ParseLines(out, EmptyMap, rt)

UpdateContainersResult_KeepOnBadLine(cur, rt, res, out) ==
    IF rt = "none" THEN cur
    ELSE IF res # "ok" THEN cur
    ELSE IF \E i \in 1 .. Len(out) : out[i].kind \in {"malformed", "mistyped"} THEN cur
    ELSE ParseLines(out, EmptyMap, rt)

\* _update_containers once the CLI has returned: the value self.containers holds
\* afterwards.  res is "ok" (exit 0), "nonzero" (exit # 0) or "raise" (the call
\* raised); in the last two cases the method returns before the assignment.
UpdateContainersResult(cur, rt, res, out) ==
    IF rt = "none" THEN cur
    ELSE IF res # "ok" THEN cur
    ELSE ParseLines(out, EmptyMap, rt)

(* ------------------------------- engine -------------------------------- *)

\* The engine behind the CLI holds the state of the one container "a" ("Up",
\* "Exited" or "absent"), or is a CLI whose output is crafted: "mock" prints any
\* lines, "pair" prints lines of the two containers "a" and "b".

\* The lines of all crafted outputs of at most MaxLines lines.
CraftedOutputs == UNION { [1 .. n -> Lines] : n \in 0 .. MaxLines }

\* The outputs that list a running "a", an exited "b", both in either order, or nothing.
PairOutputs ==
    { <<>>, <<LineA_Up>>, <<LineB_Exited>>, <<LineA_Up, LineB_Exited>>,
      <<LineB_Exited, LineA_Up>> }

\* The outputs `<engine> ps -a` can print when it exits 0.
PsOutputs(eng) ==
    IF eng = "mock" THEN CraftedOutputs
    ELSE IF eng = "pair" THEN PairOutputs
    ELSE IF eng = "Up" THEN { <<LineA_Up>> }
    ELSE IF eng = "Exited" THEN { <<LineA_Exited>> }
    ELSE { <<>> }

\* The engine after `<engine> start|stop|restart <id>` or compose up|down exits 0.
EngineAfter(eng, op, arg) ==
    IF eng \in {"mock", "pair"} THEN eng
    ELSE IF op = "start_container" \/ op = "restart_container" THEN "Up"
    ELSE IF op = "stop_container" THEN "Exited"
    ELSE IF arg = "up" THEN "Up"
    ELSE "absent"

\* Whether the engine can carry the command out: a container command needs the
\* container to exist.
CanSucceed(eng, op, arg) ==
    IF op = "run_compose" THEN TRUE
    ELSE eng \in {"mock", "pair"} \/ (arg = "a" /\ eng # "absent")

(* ------------------------------- state --------------------------------- *)

VARIABLES
    runtime,            \* self.runtime: "docker", "podman" or "none" (None)
    running,            \* self.running
    update_thread,      \* self.update_thread: a thread id, or None
    containers,         \* self.containers: the published snapshot
    update_callbacks,   \* self.update_callbacks
    engine,             \* the engine behind the CLI
    thr,                \* the loop threads: position and locals of _update_loop
    ses,                \* the UI sessions: position and locals of the call in progress
    notified            \* callbacks called since self.containers was last assigned

\* The rest of the application: what the poller's own statements never touch.
VARIABLES
    script,             \* main.py: each session's script run and its st.session_state
    perf,               \* the PerformanceMonitor singleton
    host,               \* the machine the detection functions probe
    call,               \* the detection call made last, and what it returned
    compose,            \* the run_compose call made last, and the commands it ran
    lab                 \* the Lab Setup screen: the environment file and the saved path

VARIABLES
    ui,                 \* main.py and lib/ui.py: button clicks and the exit screen
    metrics,            \* the PerformanceMonitor's metric attributes and a reader
    atm,                \* utils/performance.py: the AsyncTaskManager class and its worker
    cache               \* utils/performance.py: _function_cache and _cache_expiry

pollerVars ==
    <<runtime, running, update_thread, containers, update_callbacks, engine, thr, ses,
      notified>>

appVars == <<script, perf, host, call, compose, lab>>

utilVars == <<ui, metrics, atm, cache>>

vars == <<pollerVars, appVars, utilVars>>

NoThread ==
    [pc |-> "none", res |-> "none", out |-> <<>>, idx |-> 0, new |-> EmptyMap,
     cb |-> "none", called |-> <<>>]

IdleSession ==
    [pc |-> "idle", op |-> "none", arg |-> "none", ret |-> "none", cmds |-> 0,
     polls |-> 0, cmdRes |-> "none", res |-> "none", out |-> <<>>, join |-> None,
     idx |-> 0, new |-> EmptyMap, seen |-> "none"]

Alive(t) == thr[t].pc \notin {"none", "created", "dead"}

Created == { t \in ThreadIds : thr[t].pc # "none" }

\* A loop thread inside a call of unbounded duration: the CLI, or a callback.
Blocked(t) ==
    \/ thr[t].pc = "cli"
    \/ thr[t].pc = "notify" /\ thr[t].idx <= Len(update_callbacks)

\* A loop thread that can stay alive for longer than a join waits: one inside the
\* CLI or a callback, or one asleep for an interval no shorter than the timeout.
CanOutlastJoin(t) ==
    Blocked(t) \/ (thr[t].pc = "sleep" /\ UpdateInterval >= JoinTimeout)

(* --------------------------- _update_loop ------------------------------ *)

\* `while self.running:` and the entry of _update_containers: without a runtime
\* the method returns at once, otherwise the thread enters subprocess.run.
LoopCheck(t) ==
    /\ thr[t].pc = "check"
    /\ thr' = [thr EXCEPT ![t].pc =
                 IF ~running THEN "dead"
                 ELSE IF runtime = "none" THEN "notify"
                 ELSE "cli",
               ![t].idx = 1, ![t].res = "none", ![t].out = <<>>, ![t].called = <<>>]
    /\ UNCHANGED <<runtime, running, update_thread, containers, update_callbacks, engine,
                   ses, notified>>

\* subprocess.run([runtime, 'ps', '-a', ...]) returns exit 0 with its output, returns
\* a non-zero exit, or raises.
LoopCliReturn(t) ==
    /\ thr[t].pc = "cli"
    /\ \E res \in {"ok", "nonzero", "raise"} :
         \E out \in (IF res = "ok" THEN PsOutputs(engine) ELSE { <<>> }) :
            thr' = [thr EXCEPT ![t].pc = "parse", ![t].res = res, ![t].out = out]
    /\ UNCHANGED <<runtime, running, update_thread, containers, update_callbacks, engine,
                   ses, notified>>

\* The rest of _update_containers: parse and `self.containers = new_containers`.
LoopPublish(t) ==
    /\ thr[t].pc = "parse"
    /\ containers' = UpdateContainersResult(containers, runtime, thr[t].res, thr[t].out)
    /\ notified' = IF thr[t].res = "ok" THEN {} ELSE notified
    /\ thr' = [thr EXCEPT ![t].pc = "notify", ![t].idx = 1]
    /\ UNCHANGED <<runtime, running, update_thread, update_callbacks, engine, ses>>

\* `for callback in self.update_callbacks: callback(self.containers)`: one callback
\* per step; past the end of the list the thread goes to sleep.
LoopNotify(t) ==
    /\ thr[t].pc = "notify"
    /\ IF thr[t].idx <= Len(update_callbacks)
       THEN /\ notified' = notified \cup {update_callbacks[thr[t].idx]}
            /\ thr' = [thr EXCEPT ![t].idx = @ + 1]
       ELSE /\ notified' = notified
            /\ thr' = [thr EXCEPT ![t].pc = "sleep", ![t].idx = 0]
    /\ UNCHANGED <<runtime, running, update_thread, containers, update_callbacks, engine,
                   ses>>

\* time.sleep(self.update_interval) ends.
LoopSleep(t) ==
    /\ thr[t].pc = "sleep"
    /\ thr' = [thr EXCEPT ![t].pc = "check"]
    /\ UNCHANGED <<runtime, running, update_thread, containers, update_callbacks, engine,
                   ses, notified>>

(* ----------------------- start() and stop() ---------------------------- *)

\* Sessions inside start() that have yet to create their thread.
Starting == { s \in Sessions : ses[s].pc \in {"start_set", "start_new"} }

\* start(), `if self.running: return`.  A call that goes on will create a thread.
StartCheck(s) ==
    /\ ses[s].pc = "idle"
    /\ running \/ Cardinality(Created) + Cardinality(Starting) < MaxThreads
    /\ ses' = [ses EXCEPT ![s] =
                 [IdleSession EXCEPT !.pc = IF running THEN "idle" ELSE "start_set"]]
    /\ UNCHANGED <<runtime, running, update_thread, containers, update_callbacks, engine,
                   thr, notified>>

\* start(), `self.running = True`
StartSet(s) ==
    /\ ses[s].pc = "start_set"
    /\ running' = TRUE
    /\ ses' = [ses EXCEPT ![s].pc = "start_new"]
    /\ UNCHANGED <<runtime, update_thread, containers, update_callbacks, engine, thr,
                   notified>>

\* start(), `self.update_thread = threading.Thread(target=self._update_loop, ...)`
StartNew(s) ==
    /\ ses[s].pc = "start_new"
    /\ LET t == Cardinality(Created) + 1
       IN  /\ thr' = [thr EXCEPT ![t].pc = "created"]
           /\ update_thread' = t
    /\ ses' = [ses EXCEPT ![s].pc = "start_go"]
    /\ UNCHANGED <<runtime, running, containers, update_callbacks, engine, notified>>

\* start(), `self.update_thread.start()`: starts the thread the attribute refers to
\* now; raises AttributeError on None and RuntimeError on a thread started before.
StartGo(s) ==
    /\ ses[s].pc = "start_go"
    /\ IF update_thread # None /\ thr[update_thread].pc = "created"
       THEN thr' = [thr EXCEPT ![update_thread].pc = "check"]
       ELSE thr' = thr
    /\ ses' = [ses EXCEPT ![s].pc = "idle"]
    /\ UNCHANGED <<runtime, running, update_thread, containers, update_callbacks, engine,
                   notified>>

\* stop(), `self.running = False`
StopClear(s) ==
    /\ ses[s].pc = "idle"
    /\ running' = FALSE
    /\ ses' = [ses EXCEPT ![s] = [IdleSession EXCEPT !.pc = "stop_join"]]
    /\ UNCHANGED <<runtime, update_thread, containers, update_callbacks, engine, thr,
                   notified>>

\* stop(), `if self.update_thread: self.update_thread.join(timeout=5)`: without a
\* thread the call returns; joining a thread that was never started raises
\* RuntimeError; otherwise the caller waits.
StopJoin(s) ==
    /\ ses[s].pc = "stop_join"
    /\ ses' = IF update_thread # None /\ thr[update_thread].pc # "created"
              THEN [ses EXCEPT ![s].pc = "stop_wait", ![s].join = update_thread]
              ELSE [ses EXCEPT ![s].pc = "idle"]
    /\ UNCHANGED <<runtime, running, update_thread, containers, update_callbacks, engine,
                   thr, notified>>

\* join(timeout=5) returns: the thread has ended, or five seconds have passed.  A
\* thread that is asleep (two seconds) or between two statements ends before the
\* timeout; one inside the CLI or a callback need not.
StopWaitEnds(s) == thr[ses[s].join].pc = "dead" \/ CanOutlastJoin(ses[s].join)

\* stop(), the join returns and `self.update_thread = None`
StopWait(s) ==
    /\ ses[s].pc = "stop_wait"
    /\ StopWaitEnds(s)
    /\ update_thread' = None
    /\ ses' = [ses EXCEPT ![s].pc = "idle", ![s].join = None]
    /\ UNCHANGED <<runtime, running, containers, update_callbacks, engine, thr, notified>>

(* ------------------------- mutating operations ------------------------- *)

ContainerOps == {"start_container", "stop_container", "restart_container"}

Args(op) == IF op = "run_compose" THEN {"up", "down"} ELSE {"a", "z"}

OpCheck_IgnoresMissingRuntime(s, op, arg) ==
    /\ ses[s].pc = "idle"
    /\ ses' = [ses EXCEPT ![s] = [IdleSession EXCEPT !.op = op, !.arg = arg, !.pc = "op_cmd"]]
    /\ UNCHANGED <<runtime, running, update_thread, containers, update_callbacks, engine,
                   thr, notified>>

\* `if not self.runtime: return False`
OpCheck(s, op, arg) ==
    /\ ses[s].pc = "idle"
    /\ ses' = [ses EXCEPT ![s] =
                 [IdleSession EXCEPT !.op = op, !.arg = arg,
                                     !.pc = IF runtime = "none" THEN "idle" ELSE "op_cmd",
                                     !.ret = IF runtime = "none" THEN "False" ELSE "none"]]
    /\ UNCHANGED <<runtime, running, update_thread, containers, update_callbacks, engine,
                   thr, notified>>

OpAfterCmd_RetryOnce(s, cmdRes) ==
    IF cmdRes # "ok" /\ ses[s].cmds = 0
    THEN [ses[s] EXCEPT !.cmds = @ + 1, !.cmdRes = cmdRes]
    ELSE [ses[s] EXCEPT !.cmds = @ + 1, !.cmdRes = cmdRes,
                        !.pc = IF cmdRes = "ok" /\ ses[s].op \in ContainerOps
                               THEN "op_ps" ELSE "idle",
                        !.ret = IF cmdRes # "ok" THEN "False"
                                ELSE IF ses[s].op \in ContainerOps THEN "none" ELSE "True"]

OpAfterCmd_RepollAlways(s, cmdRes) ==
    [ses[s] EXCEPT !.cmds = @ + 1, !.cmdRes = cmdRes,
                   !.pc = "op_ps",
                   !.ret = IF cmdRes # "ok" THEN "False" ELSE "True"]

OpAfterCmd_TrueOnFailure(s, cmdRes) ==
    [ses[s] EXCEPT !.cmds = @ + 1, !.cmdRes = cmdRes,
                   !.pc = IF ses[s].op \in ContainerOps THEN "op_ps" ELSE "idle",
                   !.ret = IF ses[s].op \in ContainerOps THEN "none" ELSE "True"]

\* What the caller does once subprocess.run(cmd) is over: a non-zero exit or an
\* exception returns False; exit 0 returns True, for start/stop/restart after
\* self._update_containers().
OpAfterCmd(s, cmdRes) ==
    [ses[s] EXCEPT !.cmds = @ + 1, !.cmdRes = cmdRes,
                   !.pc = IF cmdRes = "ok" /\ ses[s].op \in ContainerOps
                          THEN "op_ps" ELSE "idle",
                   !.ret = IF cmdRes # "ok" THEN "False"
                           ELSE IF ses[s].op \in ContainerOps THEN "none" ELSE "True"]

\* subprocess.run([runtime, 'start'|'stop'|'restart', id]) or the compose command:
\* exit 0 changes the engine.
OpCmd(s) ==
    /\ ses[s].pc = "op_cmd"
    /\ \E cmdRes \in {"ok", "nonzero", "raise"} :
         /\ cmdRes = "ok" => CanSucceed(engine, ses[s].op, ses[s].arg)
         /\ engine' = IF cmdRes = "ok" THEN EngineAfter(engine, ses[s].op, ses[s].arg)
                      ELSE engine
         /\ ses' = [ses EXCEPT ![s] = OpAfterCmd(s, cmdRes)]
    /\ UNCHANGED <<runtime, running, update_thread, containers, update_callbacks, thr,
                   notified>>

\* self._update_containers() in the caller: the CLI of the re-poll returns.
OpPs(s) ==
    /\ ses[s].pc = "op_ps"
    /\ \E res \in {"ok", "nonzero", "raise"} :
         \E out \in (IF res = "ok" THEN PsOutputs(engine) ELSE { <<>> }) :
            ses' = [ses EXCEPT ![s].pc = "op_pub", ![s].res = res, ![s].out = out,
                               ![s].polls = @ + 1]
    /\ UNCHANGED <<runtime, running, update_thread, containers, update_callbacks, engine,
                   thr, notified>>

\* self._update_containers() in the caller: parse, assign, and the call returns.
OpPub(s) ==
    /\ ses[s].pc = "op_pub"
    /\ containers' = UpdateContainersResult(containers, runtime, ses[s].res, ses[s].out)
    /\ notified' = IF ses[s].res = "ok" THEN {} ELSE notified
    /\ ses' = [ses EXCEPT ![s].pc = "idle", ![s].res = "none", ![s].out = <<>>,
                          ![s].ret = IF ses[s].ret = "none" THEN "True" ELSE @]
    /\ UNCHANGED <<runtime, running, update_thread, update_callbacks, engine, thr>>

\* add_update_callback: self.update_callbacks.append(callback)
AddCallback(c) ==
    /\ Len(update_callbacks) < MaxCallbacks
    /\ update_callbacks' = Append(update_callbacks, c)
    /\ UNCHANGED <<runtime, running, update_thread, containers, engine, thr, ses, notified>>
    /\ UNCHANGED <<appVars, utilVars>>

\* remove_update_callback: `if callback in self.update_callbacks:` and
\* self.update_callbacks.remove(callback), which takes out the first occurrence.
RemoveCallback(c) ==
    /\ \E i \in 1 .. Len(update_callbacks) : update_callbacks[i] = c
    /\ LET i == CHOOSE i \in 1 .. Len(update_callbacks) :
                   /\ update_callbacks[i] = c
                   /\ \A j \in 1 .. (i - 1) : update_callbacks[j] # c
       IN  update_callbacks' = SubSeq(update_callbacks, 1, i - 1)
                                 \o SubSeq(update_callbacks, i + 1, Len(update_callbacks))
    /\ UNCHANGED <<runtime, running, update_thread, containers, engine, thr, ses, notified>>
    /\ UNCHANGED <<appVars, utilVars>>

(* ------------------------ lib/system.py: detection --------------------- *)

\* What the detection functions ask of the machine.  A file is absent, unreadable
\* (open raises) or readable, and then `has` is the set of texts it contains.  A
\* tool is missing (FileNotFoundError), not executable (PermissionError), or runs
\* and exits with 0 or not, and then `has` is the set of texts in its output.

File(state, has) == [state |-> state, has |-> has]

Absent == File("absent", {})

Unreadable == File("unreadable", {})

Readable(has) == File("readable", has)

Tool(state, has) == [state |-> state, has |-> has]

Missing == Tool("missing", {})

NotExecutable == Tool("notexec", {})

Exit0(has) == Tool("exit0", has)

NonZero == Tool("nonzero", {})

\* os.path.exists(path)
Exists(f) == f.state # "absent"

\* subprocess.run([tool, ...]) returns, whatever its exit status
Ran(tool) == tool.state \in {"exit0", "nonzero"}

\* The outcome of a call that raises instead of returning.
Raises == "raises"

ArmMachines == {"aarch64", "armv7l", "arm64"}

\* IS_ARM = platform.machine().lower() in ["aarch64", "armv7l", "arm64"]
IS_ARM(h) == h.machine \in ArmMachines

PLATFORM_TYPES == {"auto", "dgx", "jetson", "apple", "nvidia", "amd", "intel", "arm"}

CPU_TYPES == {"auto", "amd", "arm", "intel", "apple"}

GPU_TYPES == {"auto", "nvidia", "amd", "apple", "cpu"}

detect_os(h) ==
    IF h.system = "Linux"
    THEN IF h.os_release.state # "readable" THEN "Linux"
         ELSE IF "Arch Linux" \in h.os_release.has THEN "Arch"
         ELSE IF "Pop!_OS" \in h.os_release.has THEN "PopOS"
         ELSE IF "Debian" \in h.os_release.has THEN "Debian"
         ELSE IF "Ubuntu" \in h.os_release.has THEN "Ubuntu"
         ELSE IF "Fedora" \in h.os_release.has THEN "Fedora"
         ELSE "Linux"
    ELSE IF h.system = "Darwin" THEN "Mac"
    ELSE IF h.system = "Windows" THEN "Windows"
    ELSE "Other"

\* get_system_memory: the first probe that succeeds gives h.mem gigabytes (0 when
\* none does), and the function then defaults to 8.
get_system_memory(h) == IF h.mem = 0 THEN 8 ELSE h.mem

\* The chain of core-count thresholds of one chip generation, best variant first.
M4Variant(p, e) ==
    IF p >= 14 /\ e >= 20 THEN "M4_MAX"
    ELSE IF p >= 12 /\ e >= 16 THEN "M4_PRO"
    ELSE IF p >= 4 /\ e >= 6 THEN "M4_BASE"
    ELSE "M4_UNKNOWN"

M3Variant(p, e) ==
    IF p >= 12 /\ e >= 16 THEN "M3_MAX"
    ELSE IF p >= 8 /\ e >= 4 THEN "M3_PRO"
    ELSE IF p >= 4 /\ e >= 4 THEN "M3_BASE"
    ELSE "M3_UNKNOWN"

M2Variant(p, e) ==
    IF p >= 8 /\ e >= 16 THEN "M2_ULTRA"
    ELSE IF p >= 8 /\ e >= 8 THEN "M2_MAX"
    ELSE IF p >= 6 /\ e >= 4 THEN "M2_PRO"
    ELSE IF p >= 4 /\ e >= 4 THEN "M2_BASE"
    ELSE "M2_UNKNOWN"

M1Variant(p, e) ==
    IF p >= 8 /\ e >= 16 THEN "M1_ULTRA"
    ELSE IF p >= 8 /\ e >= 8 THEN "M1_MAX"
    ELSE IF p >= 6 /\ e >= 2 THEN "M1_PRO"
    ELSE IF p >= 4 /\ e >= 4 THEN "M1_BASE"
    ELSE "M1_UNKNOWN"

\* h.brand is `sysctl -n machdep.cpu.brand_string` (check_output raises unless it
\* exits 0); h.pcores and h.ecores are the two core counts, 0 when their probe fails.
detect_apple_silicon_variant(h) ==
    IF h.system # "Darwin" \/ h.machine # "arm64" THEN "UNKNOWN"
    ELSE IF h.brand.state # "exit0" THEN "UNKNOWN"
    ELSE IF "M4" \in h.brand.has THEN M4Variant(h.pcores, h.ecores)
    ELSE IF "M3" \in h.brand.has THEN M3Variant(h.pcores, h.ecores)
    ELSE IF "M2" \in h.brand.has THEN M2Variant(h.pcores, h.ecores)
    ELSE IF "M1" \in h.brand.has THEN M1Variant(h.pcores, h.ecores)
    ELSE "UNKNOWN"

\* h.vendor is the vendor_id_raw of cpuinfo.get_cpu_info(), lower-cased, as a tool
\* outcome: Missing without HW_DETECTION_AVAILABLE, NonZero when the call raises.
\* h.processor is platform.processor(), lower-cased, as the set of texts it contains.
detect_cpu_type(h) ==
    IF h.system = "Darwin" /\ h.machine = "arm64" THEN "apple"
    ELSE IF h.machine \in ArmMachines THEN "arm"
    ELSE IF h.vendor.state = "exit0" /\ "amd" \in h.vendor.has THEN "amd"
    ELSE IF h.vendor.state = "exit0" /\ "intel" \in h.vendor.has THEN "intel"
    ELSE IF h.system = "Linux" /\ h.cpuinfo.state = "readable" /\ "amd" \in h.cpuinfo.has
         THEN "amd"
    ELSE IF h.system = "Linux" /\ h.cpuinfo.state = "readable" /\ "intel" \in h.cpuinfo.has
         THEN "intel"
    ELSE IF h.system = "Windows" /\ "amd" \in h.processor THEN "amd"
    ELSE IF h.system = "Windows" /\ "intel" \in h.processor THEN "intel"
    ELSE IF h.machine = "x86_64" THEN "intel"
    ELSE "unknown"

\* h.gputil is GPUtil.getGPUs() under GPU_DETECTION_AVAILABLE: "unavailable",
\* "raises", "gpus" or "nogpus".  Every probe sits in its own try/except.
detect_gpu_type(h) ==
    IF h.system = "Darwin" /\ h.machine = "arm64" THEN "apple"
    ELSE IF h.gputil = "gpus" /\ ~IS_ARM(h) THEN "nvidia"
    ELSE IF h.nvidia_smi.state = "exit0" THEN "nvidia"
    ELSE IF h.system = "Linux" /\ (h.rocm \/ h.rocminfo.state = "exit0") THEN "amd"
    ELSE IF h.system = "Linux" /\ Ran(h.lspci) /\ {"amd", "vga"} \subseteq h.lspci.has
         THEN "amd"
    ELSE IF h.system = "Windows" /\ Ran(h.wmic) /\ h.wmic.has \cap {"amd", "radeon"} # {}
         THEN "amd"
    ELSE "cpu"

\* The first test opens /proc/cpuinfo outside any try/except.
detect_platform(h) ==
    IF h.dgx_release THEN "dgx"
    ELSE IF Exists(h.cpuinfo) /\ h.cpuinfo.state = "unreadable" THEN Raises
    ELSE IF Exists(h.cpuinfo) /\ "NVIDIA DGX" \in h.cpuinfo.has THEN "dgx"
    ELSE IF h.tegra_release THEN "jetson"
    ELSE IF h.system = "Darwin" /\ h.machine = "arm64" THEN "apple"
    ELSE IF detect_gpu_type(h) = "nvidia" THEN "nvidia"
    ELSE IF detect_gpu_type(h) = "amd" THEN "amd"
    ELSE IF detect_cpu_type(h) \in {"amd", "intel", "arm"} THEN detect_cpu_type(h)
    ELSE IF h.machine = "x86_64" THEN "intel"
    ELSE IF h.machine \in ArmMachines THEN "arm"
    ELSE "unknown"

\* h.dt_model is /proc/device-tree/model, lower-cased.
detect_jetson_model(h) ==
    IF ~h.tegra_release THEN "unknown"
    ELSE IF h.dt_model.state # "readable" THEN "unknown"
    ELSE IF "orin" \in h.dt_model.has /\ "nano" \in h.dt_model.has
         THEN IF get_system_memory(h) <= 4 THEN "orin_nano_4gb" ELSE "orin_nano_8gb"
    ELSE IF "orin" \in h.dt_model.has /\ "nx" \in h.dt_model.has
         THEN IF get_system_memory(h) <= 8 THEN "orin_nx_8gb" ELSE "orin_nx_16gb"
    ELSE IF "orin" \in h.dt_model.has /\ "agx" \in h.dt_model.has
         THEN IF get_system_memory(h) <= 32 THEN "agx_32gb" ELSE "agx_64gb"
    ELSE "unknown_jetson"

\* system.py: Podman first, every failure swallowed by a bare except.
detect_container_engine(h) ==
    IF h.podman.state = "exit0" THEN "podman"
    ELSE IF h.docker.state = "exit0" THEN "docker"
    ELSE "none"

\* containers.py: Docker first, and only FileNotFoundError is caught.
detect_container_runtime(h) ==
    IF h.docker.state = "exit0" THEN "docker"
    ELSE IF h.docker.state = "notexec" THEN Raises
    ELSE IF h.podman.state = "exit0" THEN "podman"
    ELSE IF h.podman.state = "notexec" THEN Raises
    ELSE "none"

\* The dict get_system_info builds, by the functions that fill it; the first of
\* them to raise ends the call.
get_system_info(h) ==
    IF detect_platform(h) = Raises THEN [raised |-> TRUE]
    ELSE [raised |-> FALSE,
          os |-> detect_os(h),
          cpu |-> detect_cpu_type(h),
          gpu |-> detect_gpu_type(h),
          memory |-> get_system_memory(h),
          platform |-> detect_platform(h),
          jetson_model |-> IF detect_platform(h) = "jetson" THEN detect_jetson_model(h)
                           ELSE "None",
          apple_silicon |-> IF detect_platform(h) = "apple"
                            THEN detect_apple_silicon_variant(h) ELSE "absent"]


\* A Linux PC on which every probe fails.
Bare ==
    [system |-> "Linux", machine |-> "x86_64", os_release |-> Absent,
     dgx_release |-> FALSE, cpuinfo |-> Readable({}), tegra_release |-> FALSE,
     dt_model |-> Absent, mem |-> 0, vendor |-> Missing, processor |-> {},
     gputil |-> "unavailable", nvidia_smi |-> Missing, rocm |-> FALSE,
     rocminfo |-> Missing, lspci |-> Missing, wmic |-> Missing, brand |-> Missing,
     pcores |-> 0, ecores |-> 0, podman |-> Missing, docker |-> Missing]

CpuinfoFiles ==
    { Absent, Unreadable, Readable({}), Readable({"amd"}), Readable({"intel"}),
      Readable({"NVIDIA DGX"}), Readable({"NVIDIA DGX", "intel"}) }

LinuxHosts ==
    { [Bare EXCEPT !.machine = m, !.dgx_release = d, !.cpuinfo = c, !.vendor = v,
                   !.nvidia_smi = n, !.rocm = r] :
        m \in {"x86_64", "aarch64", "riscv64"}, d \in BOOLEAN, c \in CpuinfoFiles,
        v \in {Missing, NonZero, Exit0({"intel"})}, n \in {Missing, NonZero, Exit0({})},
        r \in BOOLEAN }

GpuHosts ==
    { [Bare EXCEPT !.gputil = g, !.rocminfo = r, !.lspci = l] :
        g \in {"unavailable", "raises", "gpus", "nogpus"},
        r \in {Missing, NotExecutable, NonZero, Exit0({})},
        l \in {Missing, Exit0({"vga"}), Exit0({"amd", "vga"})} }

OsHosts ==
    { [Bare EXCEPT !.os_release = f] :
        f \in { Unreadable, Readable({}), Readable({"Arch Linux"}), Readable({"Debian"}),
                Readable({"Pop!_OS", "Ubuntu"}), Readable({"Ubuntu", "Debian"}),
                Readable({"Fedora"}) } }

JetsonHosts ==
    { [Bare EXCEPT !.machine = "aarch64", !.tegra_release = TRUE, !.dt_model = f,
                   !.mem = g] :
        f \in { Absent, Unreadable, Readable({"orin", "nano"}), Readable({"orin", "nx"}),
                Readable({"orin", "agx"}), Readable({"orin"}), Readable({"xavier", "nx"}) },
        g \in {0, 4, 8, 16, 32, 64} }

DarwinHosts ==
    { [Bare EXCEPT !.system = "Darwin", !.machine = m, !.brand = b, !.pcores = p,
                   !.ecores = e] :
        m \in {"arm64", "x86_64"},
        b \in { Missing, NonZero, Exit0({}), Exit0({"M1"}), Exit0({"M2"}), Exit0({"M3"}),
                Exit0({"M4"}) },
        p \in {0, 4, 6, 8, 10, 12, 14}, e \in {0, 2, 4, 6, 8, 16, 20} }

WindowsHosts ==
    { [Bare EXCEPT !.system = "Windows", !.machine = "amd64", !.vendor = v,
                   !.processor = p, !.nvidia_smi = n, !.wmic = w] :
        v \in {Missing, NonZero, Exit0({"amd"})}, p \in {{}, {"amd"}, {"intel"}},
        n \in {Missing, Exit0({})}, w \in {Missing, Exit0({}), Exit0({"radeon"})} }

ToolHosts ==
    { [Bare EXCEPT !.podman = p, !.docker = d] :
        p \in {Missing, NotExecutable, NonZero, Exit0({})},
        d \in {Missing, NotExecutable, NonZero, Exit0({})} }

OtherHosts ==
    { [Bare EXCEPT !.system = "FreeBSD", !.machine = m] : m \in {"x86_64", "riscv64"} }

Hosts ==
    LinuxHosts \cup GpuHosts \cup OsHosts \cup JetsonHosts \cup DarwinHosts
        \cup WindowsHosts \cup ToolHosts \cup OtherHosts

Detectors ==
    { "detect_os", "detect_apple_silicon_variant", "detect_cpu_type", "detect_gpu_type",
      "detect_platform", "detect_jetson_model", "detect_container_engine",
      "detect_container_runtime", "get_system_info" }

\* What a call of detector f gives on machine h.
Answer(f, h) ==
    CASE f = "detect_os" -> detect_os(h)
      [] f = "detect_apple_silicon_variant" -> detect_apple_silicon_variant(h)
      [] f = "detect_cpu_type" -> detect_cpu_type(h)
      [] f = "detect_gpu_type" -> detect_gpu_type(h)
      [] f = "detect_platform" -> detect_platform(h)
      [] f = "detect_jetson_model" -> detect_jetson_model(h)
      [] f = "detect_container_engine" -> detect_container_engine(h)
      [] f = "detect_container_runtime" -> detect_container_runtime(h)
      [] f = "get_system_info" -> get_system_info(h)

NoCall == [fn |-> "none", result |-> "none", n |-> 0]

Detect_ConsumesProbe(f) ==
    /\ call.fn = f => call.n < MaxCalls
    /\ call' = [fn |-> f, result |-> Answer(f, host),
                n |-> IF call.fn = f THEN call.n + 1 ELSE 1]
    /\ host' = [host EXCEPT !.nvidia_smi = Missing, !.docker = Missing]
    /\ UNCHANGED <<utilVars, pollerVars, script, perf, compose, lab>>

\* One call of a detection function: it reads the machine and writes nothing; n
\* counts the calls of f made in a row.
Detect(f) ==
    /\ call.fn = f => call.n < MaxCalls
    /\ call' = [fn |-> f, result |-> Answer(f, host),
                n |-> IF call.fn = f THEN call.n + 1 ELSE 1]
    /\ UNCHANGED <<utilVars, pollerVars, script, perf, host, compose, lab>>

(* ----------------------- get_container_logs ---------------------------- *)

\* `if not self.runtime: return ""`
LogsCheck(s, arg) ==
    /\ ses[s].pc = "idle"
    /\ ses' = [ses EXCEPT ![s] =
                 [IdleSession EXCEPT !.op = "get_container_logs", !.arg = arg,
                                     !.pc = IF runtime = "none" THEN "idle" ELSE "logs_cmd",
                                     !.ret = IF runtime = "none" THEN "" ELSE "none"]]
    /\ UNCHANGED <<runtime, running, update_thread, containers, update_callbacks, engine,
                   thr, notified>>

\* subprocess.run([runtime, 'logs', '--tail', n, id]): exit 0 returns the output, a
\* non-zero exit or an exception returns a text that begins with "Error: ".
LogsCmd(s) ==
    /\ ses[s].pc = "logs_cmd"
    /\ \E cmdRes \in {"ok", "nonzero", "raise"} :
         /\ cmdRes = "ok" => CanSucceed(engine, ses[s].op, ses[s].arg)
         /\ ses' = [ses EXCEPT ![s].pc = "idle", ![s].cmds = @ + 1, ![s].cmdRes = cmdRes,
                               ![s].ret = IF cmdRes = "ok" THEN "stdout" ELSE "Error: "]
    /\ UNCHANGED <<runtime, running, update_thread, containers, update_callbacks, engine,
                   thr, notified>>

(* ----------------------- run_compose: the command ---------------------- *)

\* Compose files and project names; "" is a project_name of None or of no characters.
Files == {"compose.yml", "/srv/stack.yml", "lab/compose.yaml"}

Projects == {"", "lab", "dev"}

ComposeCmd_AlwaysDetached(rt, file, project, up) ==
    (IF rt = "docker" THEN <<"docker-compose">> ELSE <<"podman-compose">>)
        \o <<"-f", file>>
        \o (IF project # "" THEN <<"-p", project>> ELSE <<>>)
        \o <<IF up THEN "up" ELSE "down">>
        \o <<"-d">>

\* cmd, as run_compose builds it from compose_cmd, '-f', the file, '-p' and the
\* project when one is given, 'up' or 'down', and '-d' for up.
ComposeCmd(rt, file, project, up) ==
    (IF rt = "docker" THEN <<"docker-compose">> ELSE <<"podman-compose">>)
        \o <<"-f", file>>
        \o (IF project # "" THEN <<"-p", project>> ELSE <<>>)
        \o <<IF up THEN "up" ELSE "down">>
        \o (IF up THEN <<"-d">> ELSE <<>>)

NoCompose == [file |-> "", project |-> "", up |-> FALSE, cmds |-> <<>>]

\* run_compose(compose_file, project_name, up) is called: the arguments are kept,
\* and the call goes the way of every mutating operation.
ComposeCall(s, file, project, up) ==
    /\ OpCheck(s, "run_compose", IF up THEN "up" ELSE "down")
    /\ compose' = [file |-> file, project |-> project, up |-> up, cmds |-> <<>>]
    /\ UNCHANGED <<utilVars, script, perf, host, call, lab>>

\* subprocess.run(cmd, ...) of run_compose: the command built is the one invoked.
ComposeRun(s) ==
    /\ ses[s].op = "run_compose"
    /\ OpCmd(s)
    /\ compose' = [compose EXCEPT
                     !.cmds = Append(@, ComposeCmd(runtime, compose.file, compose.project,
                                                   compose.up))]
    /\ UNCHANGED <<utilVars, script, perf, host, call, lab>>

(* -------------------- lib/ui.py: the "Save Path" button ---------------- *)

Paths == {"/data", "/mnt/drive", "~/Singularity"}

\* f"SINGULARITY_DRIVE={drive_path}\n", one line of the file
EnvLine(path) == <<"SINGULARITY_DRIVE", "=", path>>

\* A line some other tool left in the file.
ForeignLine == <<"COMPOSE_PROJECT_NAME", "=", "lab">>

EnvFileAfter_Append(file, path, wr) ==
    IF wr = "open_fails" THEN file
    ELSE IF wr = "write_fails" THEN <<>>
    ELSE Append(file, EnvLine(path))

\* The file after `with open(env_file_path, "w") as f: f.write(...)`: open raises
\* and the file is as before; open truncates and the write raises; or both succeed.
EnvFileAfter(file, path, wr) ==
    IF wr = "open_fails" THEN file
    ELSE IF wr = "write_fails" THEN <<>>
    ELSE <<EnvLine(path)>>

\* The screen before the first click: the default path in the session state.
FreshLab == [env_file |-> <<>>, drive_path |-> "~/Singularity", dirs |-> {}, saved |-> "none"]

\* A click on "Save Path" with `path` in the text input: the session state takes the
\* path, the directory is created when it is missing (mk: os.makedirs succeeds or
\* raises), and the environment file is written (wr); `saved` keeps that outcome.
SavePath(path, mk, wr) ==
    /\ lab' = [env_file |-> EnvFileAfter(lab.env_file, path, wr),
               drive_path |-> path,
               dirs |-> IF path \notin lab.dirs /\ mk = "ok" THEN lab.dirs \cup {path}
                        ELSE lab.dirs,
               saved |-> wr]
    /\ UNCHANGED <<utilVars, pollerVars, script, perf, host, call, compose>>

(* ------------- main.py: the container buttons; the exit screen ---------- *)

\* The manager call each button of a service card stands for.
OpOf(action) ==
    CASE action = "start" -> "start_container"
      [] action = "stop" -> "stop_container"
      [] action = "restart" -> "restart_container"

\* lib/ui.py: the start button is drawn for a container that is not running, the
\* stop button for a running one, the restart button for every container.
ButtonShown(action, container) ==
    CASE action = "start" -> container.status # "running"
      [] action = "stop" -> container.status = "running"
      [] action = "restart" -> TRUE

\* f"processing_{action}_{container_id}"
ProcessingKey(action, id) == <<"processing", action, id>>

NoExit == [choice |-> "none", running |-> {}, stopped |-> {}, reported |-> FALSE]

\* The script run that follows a click on the button `action` of container `id`:
\* the button's key is True in st.session_state, the container is in the snapshot
\* of this run, and the handler calls the operation unless the processing key of
\* this action and container is already in st.session_state; the key is set and
\* never deleted.  `last` keeps the click and whether it led to a call.
ClickButton(s, action, id) ==
    /\ ses[s].pc = "idle"
    /\ id \in DOMAIN containers
    /\ ButtonShown(action, containers[id])
    /\ IF ProcessingKey(action, id) \notin ui.processing
       THEN /\ OpCheck(s, OpOf(action), id)
            /\ ui' = [ui EXCEPT !.processing = @ \cup {ProcessingKey(action, id)},
                                !.last = [action |-> action, id |-> id, invoked |-> TRUE]]
       ELSE /\ UNCHANGED pollerVars
            /\ ui' = [ui EXCEPT !.last = [action |-> action, id |-> id, invoked |-> FALSE]]
    /\ UNCHANGED <<appVars, metrics, atm, cache>>

\* The containers of the snapshot that are running.
RunningIn(snapshot) == { id \in DOMAIN snapshot : snapshot[id].status = "running" }

\* create_exit_screen, "Exit (Keep Containers Running)": st.success and st.stop().
ExitKeep(s) ==
    /\ ses[s].pc = "idle"
    /\ ui' = [ui EXCEPT !.exit = [choice |-> "keep", running |-> RunningIn(containers),
                                  stopped |-> {}, reported |-> FALSE]]
    /\ UNCHANGED <<pollerVars, appVars, metrics, atm, cache>>

\* create_exit_screen, "Exit (Stop All Containers)": st.warning("Stopping all
\* containers..."), st.success("All containers stopped. ...") and st.stop(); no
\* call of the manager is made in between.
ExitStopAll(s) ==
    /\ ses[s].pc = "idle"
    /\ ui' = [ui EXCEPT !.exit = [choice |-> "stop_all", running |-> RunningIn(containers),
                                  stopped |-> {}, reported |-> TRUE]]
    /\ UNCHANGED <<pollerVars, appVars, metrics, atm, cache>>

\* create_exit_screen, "Cancel": st.rerun().
ExitCancel(s) ==
    /\ ses[s].pc = "idle"
    /\ ui' = [ui EXCEPT !.exit = NoExit]
    /\ UNCHANGED <<pollerVars, appVars, metrics, atm, cache>>

(* ------------- lib/performance.py: the metrics and their readers -------- *)

\* start(): `if self.running: return`, else the flag is set and the thread started.
MonitorStart ==
    /\ ~perf.running /\ metrics.pc = "none"
    /\ perf' = [running |-> TRUE, alive |-> TRUE]
    /\ metrics' = [metrics EXCEPT !.pc = "check"]
    /\ UNCHANGED <<pollerVars, script, host, call, compose, lab, ui, atm, cache>>

\* stop(): `self.running = False`
MonitorStop ==
    /\ perf.running
    /\ perf' = [perf EXCEPT !.running = FALSE]
    /\ UNCHANGED <<pollerVars, script, host, call, compose, lab, utilVars>>

\* _update_loop, `while self.running:`; a new cycle begins or the thread ends.
MonitorCheck ==
    /\ metrics.pc = "check"
    /\ perf.running => metrics.cycle < MaxCycles
    /\ metrics' = IF perf.running
                  THEN [metrics EXCEPT !.pc = "cpu", !.cycle = @ + 1]
                  ELSE [metrics EXCEPT !.pc = "none"]
    /\ perf' = IF perf.running THEN perf ELSE [perf EXCEPT !.alive = FALSE]
    /\ UNCHANGED <<pollerVars, script, host, call, compose, lab, ui, atm, cache>>

\* _update_metrics, self._update_cpu_metrics(): self.cpu_usage = ...
UpdateCpu ==
    /\ metrics.pc = "cpu"
    /\ metrics' = [metrics EXCEPT !.cpu = metrics.cycle, !.pc = "memory"]
    /\ UNCHANGED <<pollerVars, appVars, ui, atm, cache>>

\* _update_metrics, self._update_memory_metrics(): self.memory_usage = ...
UpdateMemory ==
    /\ metrics.pc = "memory"
    /\ metrics' = [metrics EXCEPT !.memory = metrics.cycle, !.pc = "gpu"]
    /\ UNCHANGED <<pollerVars, appVars, ui, atm, cache>>

\* _update_metrics, self._update_gpu_metrics(): self.gpu_usage = ...
UpdateGpu ==
    /\ metrics.pc = "gpu"
    /\ metrics' = [metrics EXCEPT !.gpu = metrics.cycle, !.pc = "disk"]
    /\ UNCHANGED <<pollerVars, appVars, ui, atm, cache>>

\* _update_metrics, self._update_disk_metrics(): self.disk_usage = ...
UpdateDisk ==
    /\ metrics.pc = "disk"
    /\ metrics' = [metrics EXCEPT !.disk = metrics.cycle, !.pc = "sleep"]
    /\ UNCHANGED <<pollerVars, appVars, ui, atm, cache>>

\* time.sleep(self.update_interval) ends.
MonitorSleep ==
    /\ metrics.pc = "sleep"
    /\ metrics' = [metrics EXCEPT !.pc = "check"]
    /\ UNCHANGED <<pollerVars, appVars, ui, atm, cache>>

\* get_metrics() in a session thread: the dict is built from the attributes as they
\* are now (read here in one step).
GetMetrics ==
    /\ metrics' = [metrics EXCEPT !.seen =
                     [read |-> TRUE, cpu |-> metrics.cpu, memory |-> metrics.memory,
                      gpu |-> metrics.gpu, disk |-> metrics.disk]]
    /\ UNCHANGED <<pollerVars, appVars, ui, atm, cache>>

(* ------------- utils/performance.py: AsyncTaskManager ------------------- *)

\* The functions handed to submit_task, by identity (id(func)).
Funcs == {"f", "g"}

WorkerIds == 1 .. MaxWorkers

\* f"task_{time.time()}_{id(func)}": the clock reading and the function's identity.
TaskId(now, fn) == <<"task", now, fn>>

Pending == [status |-> "pending", value |-> 0]

Unknown == [status |-> "unknown", value |-> 0]

\* What the worker stores for the k-th submitted task: its function returned (the
\* value is taken to be k, no two tasks return the same) or raised.
Outcome(k, behaviour) ==
    IF behaviour = "returns" THEN [status |-> "completed", value |-> k]
    ELSE [status |-> "error", value |-> k]

NoJob == [id |-> <<>>, k |-> 0, behaviour |-> "none"]

\* is_alive() of worker thread w
WorkerAlive(a, w) == a.w[w].pc \notin {"none", "dead"}

\* get_task_result(task_id)
TaskResult(a, id) == IF id \in DOMAIN a.results THEN a.results[id] ELSE Unknown

\* initialize(): a new worker is started when there is none or the last one has
\* ended; a worker that is alive is left as it is, and so is _is_running.
Initialize(a) ==
    IF a.worker_thread = None \/ ~WorkerAlive(a, a.worker_thread)
    THEN LET w == Cardinality({ x \in WorkerIds : a.w[x].pc # "none" }) + 1
         IN  [a EXCEPT !.is_running = TRUE, !.worker_thread = w,
                       !.w[w] = [pc |-> "check", job |-> NoJob]]
    ELSE a

\* Whether initialize() can still be followed: it may have to create a worker.
CanInitialize(a) ==
    (a.worker_thread # None /\ WorkerAlive(a, a.worker_thread))
        \/ Cardinality({ x \in WorkerIds : a.w[x].pc # "none" }) < MaxWorkers

\* A direct call of AsyncTaskManager.initialize().
InitializeCall ==
    /\ atm.caller.pc = "idle"
    /\ CanInitialize(atm)
    /\ atm' = Initialize(atm)
    /\ UNCHANGED <<pollerVars, appVars, ui, metrics, cache>>

\* submit_task(func): `cls.initialize()`
SubmitInitialize(fn, behaviour) ==
    /\ atm.caller.pc = "idle"
    /\ Len(atm.subs) < MaxTasks
    /\ CanInitialize(atm)
    /\ atm' = [Initialize(atm) EXCEPT
                 !.caller = [pc |-> "submit_put", fn |-> fn, behaviour |-> behaviour]]
    /\ UNCHANGED <<pollerVars, appVars, ui, metrics, cache>>

\* submit_task(func): the id is made from the clock and id(func), the task is
\* tracked, its result set to pending, and the task queued.
SubmitPut ==
    /\ atm.caller.pc = "submit_put"
    /\ LET id == TaskId(atm.now, atm.caller.fn)
           k == Len(atm.subs) + 1
       IN  atm' = [atm EXCEPT
                     !.tasks = Store(@, id, atm.now),
                     !.results = Store(@, id, Pending),
                     !.queue = Append(@, [id |-> id, k |-> k,
                                          behaviour |-> atm.caller.behaviour]),
                     !.subs = Append(@, [id |-> id, behaviour |-> atm.caller.behaviour,
                                         done |-> FALSE, cut |-> FALSE]),
                     !.caller = [pc |-> "idle", fn |-> "none", behaviour |-> "none"]]
    /\ UNCHANGED <<pollerVars, appVars, ui, metrics, cache>>

\* shutdown(): `cls._is_running = False`
ShutdownClear ==
    /\ atm.caller.pc = "idle"
    /\ atm' = [atm EXCEPT
                 !.is_running = FALSE,
                 !.subs = [k \in DOMAIN atm.subs |-> [atm.subs[k] EXCEPT !.cut = TRUE]],
                 !.caller.pc = IF atm.worker_thread # None /\ WorkerAlive(atm, atm.worker_thread)
                               THEN "shutdown_join" ELSE "idle"]
    /\ UNCHANGED <<pollerVars, appVars, ui, metrics, cache>>

\* shutdown(): join(timeout=2) returns; the worker has ended, or it is inside a
\* task's function for longer than the two seconds (an idle worker leaves
\* get(timeout=1) and sees the flag before that).
ShutdownJoin ==
    /\ atm.caller.pc = "shutdown_join"
    /\ ~WorkerAlive(atm, atm.worker_thread) \/ atm.w[atm.worker_thread].pc = "run"
    /\ atm' = [atm EXCEPT !.caller.pc = "idle"]
    /\ UNCHANGED <<pollerVars, appVars, ui, metrics, cache>>

\* cleanup_old_tasks(max_age_seconds): every tracked task submitted more than
\* max_age seconds ago is removed from _tasks and from _results.
CleanupOldTasks(max_age) ==
    /\ atm.caller.pc = "idle"
    /\ LET old == { id \in DOMAIN atm.tasks : atm.now - atm.tasks[id] > max_age }
       IN  atm' = [atm EXCEPT
                     !.tasks = [id \in (DOMAIN atm.tasks) \ old |-> atm.tasks[id]],
                     !.results = [id \in (DOMAIN atm.results) \ old |-> atm.results[id]]]
    /\ UNCHANGED <<pollerVars, appVars, ui, metrics, cache>>

\* time.time() moves on.
TaskClock ==
    /\ atm.now < MaxTime
    /\ atm' = [atm EXCEPT !.now = @ + 1]
    /\ UNCHANGED <<pollerVars, appVars, ui, metrics, cache>>

\* _worker_loop, `while cls._is_running:`
WorkerCheck(w) ==
    /\ atm.w[w].pc = "check"
    /\ atm' = [atm EXCEPT !.w[w].pc = IF atm.is_running THEN "get" ELSE "dead"]
    /\ UNCHANGED <<pollerVars, appVars, ui, metrics, cache>>

\* _worker_loop, `cls._task_queue.get(timeout=1)`: a task is taken, or queue.Empty
\* is raised after a second and the loop goes round.
WorkerGet(w) ==
    /\ atm.w[w].pc = "get"
    /\ atm' = IF atm.queue # <<>>
              THEN [atm EXCEPT !.w[w] = [pc |-> "run", job |-> Head(atm.queue)],
                               !.queue = Tail(@)]
              ELSE [atm EXCEPT !.w[w].pc = "check"]
    /\ UNCHANGED <<pollerVars, appVars, ui, metrics, cache>>

\* _worker_loop, `result = func(*args, **kwargs)`: the function returns or raises.
WorkerRun(w) ==
    /\ atm.w[w].pc = "run"
    /\ atm' = [atm EXCEPT !.w[w].pc = "store"]
    /\ UNCHANGED <<pollerVars, appVars, ui, metrics, cache>>

\* _worker_loop, `cls._results[task_id] = {...}` and task_done().
WorkerStore(w) ==
    /\ atm.w[w].pc = "store"
    /\ LET job == atm.w[w].job
       IN  atm' = [atm EXCEPT
                     !.results = Store(@, job.id, Outcome(job.k, job.behaviour)),
                     !.subs[job.k].done = TRUE,
                     !.w[w] = [pc |-> "check", job |-> NoJob]]
    /\ UNCHANGED <<pollerVars, appVars, ui, metrics, cache>>

(* ------------- utils/performance.py: cached_operation ------------------- *)

\* The ttl_seconds each decorated function was decorated with: a.load and b.load
\* are two functions, in different modules, both named `load`.
Ttl(fn) == IF fn = "a.load" THEN 2 ELSE 1

\* A call: the function, the positional arguments, and the keyword arguments in
\* the order they were passed.
CallOf(fn, args, kwargs) == [fn |-> fn, args |-> args, kwargs |-> kwargs]

CachedCalls ==
    { CallOf("a.load", <<1>>, <<>>),
      CallOf("a.load", <<2>>, <<>>),
      CallOf("a.load", <<>>, << <<"x", 1>>, <<"y", 2>> >>),
      CallOf("a.load", <<>>, << <<"y", 2>>, <<"x", 1>> >>),
      CallOf("b.load", <<1>>, <<>>) }

\* The keyword arguments as the mapping the function receives.
KwSet(kwargs) == { kwargs[i] : i \in 1 .. Len(kwargs) }

\* f"{func.__name__}:{str(args)}:{str(kwargs)}": str() of a tuple and of a dict
\* print the items in order, a dict in the order its keys were inserted;
\* func.__name__ is "load" for both functions.
CacheKey(c) == <<"load", c.args, c.kwargs>>

\* What the function returns for the call.
ResultOf(c) == [fn |-> c.fn, args |-> c.args, kw |-> KwSet(c.kwargs)]

\* The wrapper: a key that is cached and not expired returns the cached value;
\* otherwise the function is executed and its result cached until now + ttl.
CachedCall(c) ==
    /\ LET key == CacheKey(c)
           hit == key \in DOMAIN cache.fc
                    /\ cache.now < (IF key \in DOMAIN cache.expiry THEN cache.expiry[key]
                                    ELSE 0)
       IN  cache' =
             IF hit
             THEN [cache EXCEPT
                     !.last = [call |-> c, executed |-> FALSE, ret |-> cache.fc[key]],
                     !.flip = ~@]
             ELSE [cache EXCEPT
                     !.fc = Store(@, key, ResultOf(c)),
                     !.expiry = Store(@, key, cache.now + Ttl(c.fn)),
                     !.executions =
                        { e \in @ : ~(e.fn = c.fn /\ e.args = c.args
                                       /\ e.kw = KwSet(c.kwargs)) }
                          \cup {[fn |-> c.fn, args |-> c.args, kw |-> KwSet(c.kwargs),
                                 time |-> cache.now]},
                     !.last = [call |-> c, executed |-> TRUE, ret |-> ResultOf(c)],
                     !.flip = ~@]
    /\ UNCHANGED <<pollerVars, appVars, ui, metrics, atm>>

\* clear_cache(): both dicts are replaced by empty ones.
ClearCache ==
    /\ cache' = [cache EXCEPT !.fc = EmptyMap, !.expiry = EmptyMap, !.executions = {}]
    /\ UNCHANGED <<pollerVars, appVars, ui, metrics, atm>>

\* time.time() moves on.
CacheClock ==
    /\ cache.now < MaxTime
    /\ cache' = [cache EXCEPT !.now = @ + 1]
    /\ UNCHANGED <<pollerVars, appVars, ui, metrics, atm>>

\* The utilities as the import of their modules leaves them.
\* ui: the session state before any click, no processing key and no exit chosen.
\* metrics, PerformanceMonitor.__init__: every metric is 0 and no thread exists; a
\* metric is kept as the number of the update cycle that produced its value,
\* `cycle` and `pc` are the monitor thread's, `seen` is what get_metrics()
\* returned last.
\* atm: the attributes of the class body, then AsyncTaskManager.initialize() at the
\* end of the module has started worker 1; `subs` lists the submit_task calls
\* made: the id each returned, the function's behaviour, whether the worker has
\* run the task (done) and whether shutdown() was called after the task was
\* submitted (cut); `caller` is the position of the thread that calls the class
\* methods.
\* cache: _function_cache = {} and _cache_expiry = {}; `executions` lists, for the
\* calls whose function was executed since the last clear_cache(), the function,
\* its arguments and the clock reading; `last` is the call made last, `flip`
\* changes with every call.
UtilInit ==
    /\ ui = [processing |-> {},
             last |-> [action |-> "none", id |-> "none", invoked |-> FALSE],
             exit |-> NoExit]
    /\ metrics =
          [cpu |-> 0, memory |-> 0, gpu |-> 0, disk |-> 0, cycle |-> 0, pc |-> "none",
           seen |-> [read |-> FALSE, cpu |-> 0, memory |-> 0, gpu |-> 0, disk |-> 0]]
    /\ atm =
          [tasks |-> EmptyMap, results |-> EmptyMap, queue |-> <<>>, is_running |-> TRUE,
           worker_thread |-> 1,
           w |-> [w \in WorkerIds |->
                    [pc |-> IF w = 1 THEN "check" ELSE "none", job |-> NoJob]],
           now |-> 0, subs |-> <<>>,
           caller |-> [pc |-> "idle", fn |-> "none", behaviour |-> "none"]]
    /\ cache =
          [fc |-> EmptyMap, expiry |-> EmptyMap, now |-> 0, executions |-> {},
           last |-> [call |-> CallOf("none", <<>>, <<>>), executed |-> FALSE,
                     ret |-> "none"],
           flip |-> FALSE]

(* ---------------------- main.py: the script runs ----------------------- *)

\* Streamlit runs main.py from top to bottom once for a new session and once more
\* for every interaction; st.session_state lasts for the session, and the two
\* monitors are singletons of the process.  `initialized` is the session-state key,
\* `rerun` tells that the run in progress found it set, `started` that both
\* monitors were polling when start_monitoring() and start_container_monitoring()
\* had returned in this session's first run.

NoRun == [pc |-> "done", initialized |-> FALSE, rerun |-> FALSE, started |-> FALSE]

\* PerformanceMonitor: the flag, and whether its loop thread is alive.
PerfStopped == [running |-> FALSE, alive |-> FALSE]

\* A run begins; `if 'initialized' not in st.session_state:` and line 85.
RunBegin(s) ==
    /\ script[s].pc = "done"
    /\ ses[s].pc = "idle"
    /\ script' = [script EXCEPT ![s].pc = IF script[s].initialized THEN "body" ELSE "init",
                                ![s].rerun = script[s].initialized,
                                ![s].initialized = TRUE]
    /\ UNCHANGED <<utilVars, pollerVars, perf, host, call, compose, lab>>

\* st.session_state.system_info = get_system_info(): an exception leaves main().
RunInit(s) ==
    /\ script[s].pc = "init"
    /\ script' = [script EXCEPT ![s].pc = IF get_system_info(host).raised THEN "cleanup"
                                          ELSE "start_monitoring"]
    /\ UNCHANGED <<utilVars, pollerVars, perf, host, call, compose, lab>>

\* start_monitoring(): PerformanceMonitor.start()
RunStartMonitoring(s) ==
    /\ script[s].pc = "start_monitoring"
    /\ perf' = IF perf.running THEN perf ELSE [running |-> TRUE, alive |-> TRUE]
    /\ script' = [script EXCEPT ![s].pc = "start_container_monitoring"]
    /\ UNCHANGED <<utilVars, pollerVars, host, call, compose, lab>>

\* start_container_monitoring(): the call of ContainerManager.start() begins
RunStartContainerMonitoring(s) ==
    /\ script[s].pc = "start_container_monitoring"
    /\ StartCheck(s)
    /\ script' = [script EXCEPT ![s].pc = "starting"]
    /\ UNCHANGED <<utilVars, perf, host, call, compose, lab>>

\* ... goes on ...
RunStarting(s) ==
    \/ script[s].pc = "starting" /\ StartSet(s) /\ UNCHANGED <<appVars, utilVars>>
    \/ script[s].pc = "starting" /\ StartNew(s) /\ UNCHANGED <<appVars, utilVars>>
    \/ script[s].pc = "starting" /\ StartGo(s) /\ UNCHANGED <<appVars, utilVars>>

\* ... and returns: lines 101-102 and the rest of main() follow.
RunStarted(s) ==
    /\ script[s].pc = "starting"
    /\ ses[s].pc = "idle"
    /\ script' = [script EXCEPT
                    ![s].pc = "body",
                    ![s].started = /\ perf.running /\ perf.alive
                                   /\ running /\ update_thread # None
                                   /\ \A t \in ThreadIds : Alive(t) <=> t = update_thread]
    /\ UNCHANGED <<utilVars, pollerVars, perf, host, call, compose, lab>>

\* main() returns, or leaves by st.rerun() or an exception: the `finally` of the
\* __main__ block runs cleanup().
RunBody(s) ==
    /\ script[s].pc = "body"
    /\ script' = [script EXCEPT ![s].pc = "cleanup"]
    /\ UNCHANGED <<utilVars, pollerVars, perf, host, call, compose, lab>>

\* cleanup(), stop_monitoring(): PerformanceMonitor.stop(); its loop sees the flag
\* within one sleep and the join returns.
RunStopMonitoring(s) ==
    /\ script[s].pc = "cleanup"
    /\ perf' = PerfStopped
    /\ script' = [script EXCEPT ![s].pc = "stop_container_monitoring"]
    /\ UNCHANGED <<utilVars, pollerVars, host, call, compose, lab>>

\* cleanup(), stop_container_monitoring(): the call of ContainerManager.stop() begins
RunStopContainerMonitoring(s) ==
    /\ script[s].pc = "stop_container_monitoring"
    /\ StopClear(s)
    /\ script' = [script EXCEPT ![s].pc = "stopping"]
    /\ UNCHANGED <<utilVars, perf, host, call, compose, lab>>

\* ... goes on ...
RunStopping(s) ==
    \/ script[s].pc = "stopping" /\ StopJoin(s) /\ UNCHANGED <<appVars, utilVars>>
    \/ script[s].pc = "stopping" /\ StopWait(s) /\ UNCHANGED <<appVars, utilVars>>

\* ... and returns: the run is over, the session waits for the next interaction.
RunEnd(s) ==
    /\ script[s].pc = "stopping"
    /\ ses[s].pc = "idle"
    /\ script' = [script EXCEPT ![s].pc = "done"]
    /\ UNCHANGED <<utilVars, pollerVars, perf, host, call, compose, lab>>

\* The state of the application outside the poller, before anything has run.
AppInit ==
    /\ script = [s \in Sessions |-> NoRun]
    /\ perf = PerfStopped
    /\ host = Bare
    /\ call = NoCall
    /\ compose = NoCompose
    /\ lab = FreshLab
    /\ UtilInit

(* ------------- _update_containers and the callbacks, in detail ---------- *)

\* One pass of `for line in result.stdout.strip().split('\n')`: what the private
\* new_containers holds after the line.
ParseLine(line, acc, rt) ==
    IF line.kind \in {"blank", "malformed", "mistyped"} THEN acc
    ELSE Store(acc, ContainerIdOf(line), RecordOf(line, rt))

PollLine_InPlace(t) ==
    /\ thr[t].pc = "parse" /\ thr[t].res = "ok" /\ thr[t].idx <= Len(thr[t].out)
    /\ containers' = ParseLine(thr[t].out[thr[t].idx],
                               IF thr[t].idx = 1 THEN EmptyMap ELSE containers, runtime)
    /\ thr' = [thr EXCEPT ![t].new = containers', ![t].idx = @ + 1]
    /\ UNCHANGED <<runtime, running, update_thread, update_callbacks, engine, ses, notified>>

\* The loop thread inside the for-loop: the line at idx goes into new_containers.
PollLine(t) ==
    /\ thr[t].pc = "parse" /\ thr[t].res = "ok" /\ thr[t].idx <= Len(thr[t].out)
    /\ thr' = [thr EXCEPT ![t].new = ParseLine(thr[t].out[thr[t].idx], @, runtime),
                          ![t].idx = @ + 1]
    /\ UNCHANGED <<runtime, running, update_thread, containers, update_callbacks, engine,
                   ses, notified>>

\* The loop thread past the for-loop, `self.containers = new_containers`; after a
\* failed CLI call the method has returned without the assignment.
PollPublish(t) ==
    /\ thr[t].pc = "parse" /\ (thr[t].res # "ok" \/ thr[t].idx > Len(thr[t].out))
    /\ containers' = IF thr[t].res = "ok" THEN thr[t].new ELSE containers
    /\ notified' = IF thr[t].res = "ok" THEN {} ELSE notified
    /\ thr' = [thr EXCEPT ![t].pc = "notify", ![t].idx = 1, ![t].new = EmptyMap]
    /\ UNCHANGED <<runtime, running, update_thread, update_callbacks, engine, ses>>

\* The same two steps in a session thread, for the re-poll of a mutating call;
\* ses[s].idx counts the lines done.
RepollLine(s) ==
    /\ ses[s].pc = "op_pub" /\ ses[s].res = "ok" /\ ses[s].idx < Len(ses[s].out)
    /\ ses' = [ses EXCEPT ![s].new = ParseLine(ses[s].out[ses[s].idx + 1], @, runtime),
                          ![s].idx = @ + 1]
    /\ UNCHANGED <<runtime, running, update_thread, containers, update_callbacks, engine,
                   thr, notified>>

RepollPublish(s) ==
    /\ ses[s].pc = "op_pub" /\ (ses[s].res # "ok" \/ ses[s].idx >= Len(ses[s].out))
    /\ containers' = IF ses[s].res = "ok" THEN ses[s].new ELSE containers
    /\ notified' = IF ses[s].res = "ok" THEN {} ELSE notified
    /\ ses' = [ses EXCEPT ![s].pc = "idle", ![s].res = "none", ![s].out = <<>>,
                          ![s].idx = 0, ![s].new = EmptyMap,
                          ![s].ret = IF ses[s].ret = "none" THEN "True" ELSE @]
    /\ UNCHANGED <<runtime, running, update_thread, update_callbacks, engine, thr>>

\* get_containers(): `return self.containers`
GetContainers(s) ==
    /\ ses[s].pc = "idle"
    /\ ses' = [ses EXCEPT ![s] =
                 [IdleSession EXCEPT !.op = "get_containers", !.seen = containers]]
    /\ UNCHANGED <<runtime, running, update_thread, containers, update_callbacks, engine,
                   thr, notified>>

\* get_container(id): `return self.containers.get(container_id)`, kept as the map
\* of that one record, empty for None.
GetContainer(s, id) ==
    /\ ses[s].pc = "idle"
    /\ ses' = [ses EXCEPT ![s] =
                 [IdleSession EXCEPT !.op = "get_container", !.arg = id,
                                     !.seen = [k \in DOMAIN containers \cap {id} |->
                                                 containers[k]]]]
    /\ UNCHANGED <<runtime, running, update_thread, containers, update_callbacks, engine,
                   thr, notified>>

LoopCallback_RaiseEndsTick(t) ==
    /\ thr[t].pc = "notify"
    /\ IF thr[t].idx <= Len(update_callbacks)
       THEN \E outcome \in {"returned", "raised"} :
              /\ notified' = notified \cup {update_callbacks[thr[t].idx]}
              /\ thr' = IF outcome = "raised"
                        THEN [thr EXCEPT ![t].pc = "sleep", ![t].idx = 0, ![t].cb = outcome]
                        ELSE [thr EXCEPT ![t].idx = @ + 1, ![t].cb = outcome]
       ELSE /\ notified' = notified
            /\ thr' = [thr EXCEPT ![t].pc = "sleep", ![t].idx = 0, ![t].cb = "none"]
    /\ UNCHANGED <<runtime, running, update_thread, containers, update_callbacks, engine,
                   ses>>

\* `for callback in self.update_callbacks:` with the try/except around each call:
\* the list iterator holds an index into the list as it is now; the callback at
\* that index returns or raises an Exception, which is logged.  cb keeps the
\* outcome of the callback called last in this tick, `called` the callbacks called
\* in this tick.
LoopCallback(t) ==
    /\ thr[t].pc = "notify"
    /\ IF thr[t].idx <= Len(update_callbacks)
       THEN \E outcome \in {"returned", "raised"} :
              /\ notified' = notified \cup {update_callbacks[thr[t].idx]}
              /\ thr' = [thr EXCEPT ![t].idx = @ + 1, ![t].cb = outcome,
                                    ![t].called = Append(@, update_callbacks[thr[t].idx])]
       ELSE /\ notified' = notified
            /\ thr' = [thr EXCEPT ![t].pc = "sleep", ![t].idx = 0, ![t].cb = "none"]
    /\ UNCHANGED <<runtime, running, update_thread, containers, update_callbacks, engine,
                   ses>>

(* ---------------------------- specifications --------------------------- *)

\* The session whose calls the one-session specifications follow.
Main == "s1"

\* The statements of the poller leave the rest of the application alone.
Rest == UNCHANGED <<appVars, utilVars>>

Start(s) ==
    \/ StartCheck(s) /\ Rest
    \/ StartSet(s) /\ Rest
    \/ StartNew(s) /\ Rest
    \/ StartGo(s) /\ Rest

Stop(s) ==
    \/ StopClear(s) /\ Rest
    \/ StopJoin(s) /\ Rest
    \/ StopWait(s) /\ Rest

Loop(t) ==
    \/ LoopCheck(t) /\ Rest
    \/ LoopCliReturn(t) /\ Rest
    \/ LoopPublish(t) /\ Rest
    \/ LoopNotify(t) /\ Rest
    \/ LoopSleep(t) /\ Rest

Mutate(s) ==
    \/ \E op \in ContainerOps \cup {"run_compose"} :
          \E arg \in Args(op) : OpCheck(s, op, arg) /\ Rest
    \/ OpCmd(s) /\ Rest
    \/ OpPs(s) /\ Rest
    \/ OpPub(s) /\ Rest

\* ContainerManager.__init__, and the module's CONTAINER_RUNTIME
Init ==
    /\ runtime \in {"docker", "podman", "none"}
    /\ running = FALSE
    /\ update_thread = None
    /\ containers = EmptyMap
    /\ update_callbacks = <<>>
    /\ engine = "Exited"
    /\ thr = [t \in ThreadIds |-> NoThread]
    /\ ses = [s \in Sessions |-> IdleSession]
    /\ notified = {}
    /\ AppInit

\* Life cycle: every session calls start() and stop() while the loops run.
Next ==
    \/ \E s \in Sessions : Start(s)
    \/ \E s \in Sessions : Stop(s)
    \/ \E c \in Callbacks : AddCallback(c)
    \/ \E t \in ThreadIds : Loop(t)

Spec == Init /\ [][Next]_vars

Logs(s) ==
    \/ \E arg \in Args("get_container_logs") : LogsCheck(s, arg) /\ Rest
    \/ LogsCmd(s) /\ Rest

\* Operations: one session starts the poller, issues mutating calls and asks for logs.
NextOps ==
    \/ Start(Main)
    \/ Mutate(Main)
    \/ Logs(Main)
    \/ \E c \in Callbacks : AddCallback(c)
    \/ \E t \in ThreadIds : Loop(t)

SpecOps == Init /\ [][NextOps]_vars

\* Polling against a CLI whose output is crafted.
InitMock ==
    /\ runtime \in {"docker", "podman"}
    /\ running = FALSE
    /\ update_thread = None
    /\ containers = EmptyMap
    /\ update_callbacks = <<>>
    /\ engine = "mock"
    /\ thr = [t \in ThreadIds |-> NoThread]
    /\ ses = [s \in Sessions |-> IdleSession]
    /\ notified = {}
    /\ AppInit

NextMock ==
    \/ Start(Main)
    \/ \E t \in ThreadIds : Loop(t)

SpecMock == InitMock /\ [][NextMock]_vars

\* Life cycle, one caller: start() and stop() are called one after the other.
NextSeq ==
    \/ Start(Main)
    \/ Stop(Main)
    \/ \E c \in Callbacks : AddCallback(c)
    \/ \E t \in ThreadIds : Loop(t)

SpecSeq == Init /\ [][NextSeq]_vars

\* The poller as ContainerManager.__init__ leaves it.
PollerIdle ==
    /\ running = FALSE
    /\ update_thread = None
    /\ containers = EmptyMap
    /\ update_callbacks = <<>>
    /\ thr = [t \in ThreadIds |-> NoThread]
    /\ ses = [s \in Sessions |-> IdleSession]
    /\ notified = {}

\* Detection: the functions of lib/system.py are called, in any order and again,
\* on one machine.
InitDetect ==
    /\ runtime = "none"
    /\ engine = "absent"
    /\ PollerIdle
    /\ script = [s \in Sessions |-> NoRun]
    /\ perf = PerfStopped
    /\ host \in Hosts
    /\ call = NoCall
    /\ compose = NoCompose
    /\ lab = FreshLab
    /\ UtilInit

NextDetect == \E f \in Detectors : Detect(f)

SpecDetect == InitDetect /\ [][NextDetect]_vars

\* Compose: one session calls run_compose with any file, project and direction.
NextCompose ==
    \/ \E file \in Files : \E project \in Projects : \E up \in BOOLEAN :
          ComposeCall(Main, file, project, up)
    \/ ComposeRun(Main)

SpecCompose == Init /\ [][NextCompose]_vars

\* What the environment file can hold before the first click.
EnvFiles == { <<>>, <<EnvLine("/old")>>, <<ForeignLine, EnvLine("/old")>> }

\* Lab Setup: "Save Path" is clicked again and again.
InitLab ==
    /\ runtime = "none"
    /\ engine = "absent"
    /\ PollerIdle
    /\ script = [s \in Sessions |-> NoRun]
    /\ perf = PerfStopped
    /\ host = Bare
    /\ call = NoCall
    /\ compose = NoCompose
    /\ lab \in { [FreshLab EXCEPT !.env_file = f] : f \in EnvFiles }
    /\ UtilInit

NextLab ==
    \E path \in Paths : \E mk \in {"ok", "raises"} :
        \E wr \in {"ok", "open_fails", "write_fails"} : SavePath(path, mk, wr)

SpecLab == InitLab /\ [][NextLab]_vars

\* Script runs: every session runs main.py again and again while the loops run.
InitRun ==
    /\ runtime \in {"docker", "podman", "none"}
    /\ engine = "Exited"
    /\ PollerIdle
    /\ script = [s \in Sessions |-> NoRun]
    /\ perf = PerfStopped
    /\ host \in {Bare, [Bare EXCEPT !.cpuinfo = Unreadable]}
    /\ call = NoCall
    /\ compose = NoCompose
    /\ lab = FreshLab
    /\ UtilInit

Run(s) ==
    \/ RunBegin(s)
    \/ RunInit(s)
    \/ RunStartMonitoring(s)
    \/ RunStartContainerMonitoring(s)
    \/ RunStarting(s)
    \/ RunStarted(s)
    \/ RunBody(s)
    \/ RunStopMonitoring(s)
    \/ RunStopContainerMonitoring(s)
    \/ RunStopping(s)
    \/ RunEnd(s)

NextRun ==
    \/ \E s \in Sessions : Run(s)
    \/ \E t \in ThreadIds : Loop(t)

SpecRun == InitRun /\ [][NextRun]_vars

\* The session that only reads.
Reader == "s2"

\* The loop with _update_containers line by line.
Poll(t) ==
    \/ LoopCheck(t) /\ Rest
    \/ LoopCliReturn(t) /\ Rest
    \/ PollLine(t) /\ Rest
    \/ PollPublish(t) /\ Rest
    \/ LoopNotify(t) /\ Rest
    \/ LoopSleep(t) /\ Rest

\* restart_container("a"), its re-poll line by line.
Repoll(s) ==
    \/ OpCheck(s, "restart_container", "a") /\ Rest
    \/ OpCmd(s) /\ Rest
    \/ OpPs(s) /\ Rest
    \/ RepollLine(s) /\ Rest
    \/ RepollPublish(s) /\ Rest

Read(s) ==
    \/ GetContainers(s) /\ Rest
    \/ \E id \in {"a", "b"} : GetContainer(s, id) /\ Rest

\* Snapshots: the loop polls, one session re-polls and another reads, against a
\* CLI that lists two containers.
InitSnap ==
    /\ runtime \in {"docker", "podman"}
    /\ engine = "pair"
    /\ PollerIdle
    /\ AppInit

NextSnap ==
    \/ Start(Main)
    \/ Repoll(Main)
    \/ Read(Reader)
    \/ \E t \in ThreadIds : Poll(t)

SpecSnap == InitSnap /\ [][NextSnap]_vars

\* The loop with callbacks that return or raise.
Tick(t) ==
    \/ LoopCheck(t) /\ Rest
    \/ LoopCliReturn(t) /\ Rest
    \/ LoopPublish(t) /\ Rest
    \/ LoopCallback(t) /\ Rest
    \/ LoopSleep(t) /\ Rest

\* Faults: the poller is started and never stopped; the CLI fails and callbacks
\* raise.  Every call the loop makes comes back, and the thread is scheduled.
NextFaults ==
    \/ Start(Main)
    \/ \E c \in Callbacks : AddCallback(c)
    \/ \E t \in ThreadIds : Tick(t)

SpecFaults == Init /\ [][NextFaults]_vars /\ \A t \in ThreadIds : WF_vars(Tick(t))

\* Observers: both are registered before the poller is started, and are removed
\* while the loop runs.
InitObservers ==
    /\ runtime \in {"docker", "podman"}
    /\ engine = "Exited"
    /\ running = FALSE
    /\ update_thread = None
    /\ containers = EmptyMap
    /\ update_callbacks \in { <<"cb1", "cb2">>, <<"cb2", "cb1">> }
    /\ thr = [t \in ThreadIds |-> NoThread]
    /\ ses = [s \in Sessions |-> IdleSession]
    /\ notified = {}
    /\ AppInit

NextObservers ==
    \/ Start(Main)
    \/ \E c \in {"cb1", "cb2"} : RemoveCallback(c)
    \/ \E t \in ThreadIds : Tick(t)

SpecObservers == InitObservers /\ [][NextObservers]_vars

\* The screens: the poller runs, a session clicks container buttons and goes
\* through the exit screen.
InitUi ==
    /\ runtime \in {"docker", "podman"}
    /\ engine = "Exited"
    /\ PollerIdle
    /\ AppInit

\* A click on one of the buttons of a container comes with the call it leads to.
NextUi ==
    \/ Start(Main)
    \/ \E action \in {"start", "stop", "restart"} : ClickButton(Main, action, "a")
    \/ OpCmd(Main) /\ Rest
    \/ OpPs(Main) /\ Rest
    \/ OpPub(Main) /\ Rest
    \/ ExitKeep(Main)
    \/ ExitStopAll(Main)
    \/ ExitCancel(Main)
    \/ \E t \in ThreadIds : Loop(t)

SpecUi == InitUi /\ [][NextUi]_vars

\* The application with the poller never started and no screen used.
InitIdle ==
    /\ runtime = "none"
    /\ engine = "absent"
    /\ PollerIdle
    /\ AppInit

\* The performance monitor's thread and a session that reads the metrics.
NextMetrics ==
    \/ MonitorStart
    \/ MonitorStop
    \/ MonitorCheck
    \/ UpdateCpu
    \/ UpdateMemory
    \/ UpdateGpu
    \/ UpdateDisk
    \/ MonitorSleep
    \/ GetMetrics

SpecMetrics == InitIdle /\ [][NextMetrics]_vars

\* The worker thread of the AsyncTaskManager.
Worker(w) ==
    \/ WorkerCheck(w)
    \/ WorkerGet(w)
    \/ WorkerRun(w)
    \/ WorkerStore(w)

\* The thread that calls the class methods, one call after the other (a task's
\* function returns or raises when the worker calls it), the clock and the worker.
NextTasks ==
    \/ InitializeCall
    \/ \E fn \in Funcs : \E behaviour \in {"returns", "raises"} :
          SubmitInitialize(fn, behaviour)
    \/ SubmitPut
    \/ ShutdownClear
    \/ ShutdownJoin
    \/ \E max_age \in {0, 1} : CleanupOldTasks(max_age)
    \/ TaskClock
    \/ \E w \in WorkerIds : Worker(w)

\* Tasks: every task's function returns or raises, the worker threads are
\* scheduled, and a call in progress goes on.
SpecTasks ==
    /\ InitIdle
    /\ [][NextTasks]_vars
    /\ \A w \in WorkerIds : WF_vars(Worker(w))
    /\ WF_vars(SubmitPut)
    /\ WF_vars(ShutdownJoin)

NextCache ==
    \/ \E c \in CachedCalls : CachedCall(c)
    \/ ClearCache
    \/ CacheClock

SpecCache == InitIdle /\ [][NextCache]_vars

(* ------------------------------- claims -------------------------------- *)

AliveThreads == { t \in ThreadIds : Alive(t) }

Quiescent == \A s \in Sessions : ses[s].pc = "idle"

Stopped == ~running /\ AliveThreads = {} /\ update_thread = None

Polling == running /\ update_thread # None /\ AliveThreads = {update_thread}

\* C1: between calls of start() and stop() the poller is in one of two states:
\* Stopped (flag down, no loop thread alive) or Polling (flag up, one loop alive).
C1_OnlyStoppedOrPolling == Quiescent => (Stopped \/ Polling)

\* No session thread is inside the assignment of the snapshot.
OnlyLoopsWrite == \A s \in Sessions : ses[s].pc # "op_pub"

\* C2: at most one polling loop is alive at any moment, and no thread other
\* than a polling loop is about to assign the snapshot.
C2_SingleLoopSingleWriter == Cardinality(AliveThreads) <= 1 /\ OnlyLoopsWrite

MutatingOps == ContainerOps \cup {"run_compose"}

Returned(s) == ses[s].pc = "idle" /\ ses[s].op \in MutatingOps

\* C3 as stated: every mutating call has re-polled exactly once when it returns.
C3_EveryMutatingCallRepollsOnce ==
    \A s \in Sessions : Returned(s) => ses[s].polls = 1

\* C3 as amended: a mutating call re-polls once before it returns exactly when it
\* is start_container, stop_container or restart_container and returns True; a call
\* that returns False and every run_compose call re-poll zero times.
C3_RepollOnceIffContainerOpSucceeds ==
    \A s \in Sessions :
        /\ ses[s].polls <= 1
        /\ Returned(s) =>
             ses[s].polls = (IF ses[s].op \in ContainerOps /\ ses[s].ret = "True" THEN 1 ELSE 0)

C3_Witness ==
    \E s \in Sessions :
        /\ Returned(s) /\ ses[s].op = "start_container" /\ ses[s].ret = "True"
        /\ ses[s].polls = 1
        /\ "a" \in DOMAIN containers /\ containers["a"].status = "running"

RegisteredCallbacks == { update_callbacks[i] : i \in 1 .. Len(update_callbacks) }

\* C4: when a mutating call returns after a re-poll that assigned the snapshot,
\* every registered callback has been called since that assignment.
C4_ObserversNotifiedByRepoll ==
    [][\A s \in Sessions :
          (ses[s].pc = "op_pub" /\ ses[s].res = "ok" /\ ses'[s].pc = "idle")
              => RegisteredCallbacks \subseteq notified']_vars

\* The loop thread t completes _update_containers in this step.
TickEnds(t) == thr[t].pc = "parse" /\ thr'[t].pc # "parse"

\* C5: a poll tick whose `ps` exits non-zero leaves the published snapshot as it was.
C5_NonZeroExitKeepsSnapshot ==
    [][\A t \in ThreadIds :
          (TickEnds(t) /\ thr[t].res = "nonzero") => containers' = containers]_vars

\* The loop thread t has completed a poll and not yet begun the next one.
Polled(t) == thr[t].pc \in {"notify", "sleep"} /\ thr[t].res # "none"

C5_Witness ==
    \E t \in ThreadIds : Polled(t) /\ thr[t].res = "nonzero" /\ containers # EmptyMap

FailsToParse(line) == line.kind = "malformed"

WellFormed(line) == line.kind = "object"

HasBadLine(out) == \E i \in 1 .. Len(out) : FailsToParse(out[i])

WellFormedAt(out) == { i \in 1 .. Len(out) : WellFormed(out[i]) }

IdsOf(out) == { ContainerIdOf(out[i]) : i \in WellFormedAt(out) }

\* The last well-formed line of out that carries container id k.
LastLineOf(out, k) ==
    LET at == { i \in WellFormedAt(out) : ContainerIdOf(out[i]) = k }
    IN  out[CHOOSE i \in at : \A j \in at : j <= i]

\* C6 as stated: a tick whose output holds a line that fails to parse leaves the
\* snapshot as it was.
C6_BadLineKeepsSnapshot ==
    [][\A t \in ThreadIds :
          (TickEnds(t) /\ thr[t].res = "ok" /\ HasBadLine(thr[t].out))
              => containers' = containers]_vars

\* C6 as amended: a tick (exit 0) whose output holds a line that fails to parse
\* replaces the snapshot by the records of that output's well-formed lines alone:
\* the bad line is skipped and no record of the previous snapshot is kept.
C6_BadLineSkippedSnapshotReplaced ==
    [][\A t \in ThreadIds :
          (TickEnds(t) /\ thr[t].res = "ok" /\ HasBadLine(thr[t].out))
              => /\ DOMAIN containers' = IdsOf(thr[t].out)
                 /\ \A k \in IdsOf(thr[t].out) :
                       containers'[k] = RecordOf(LastLineOf(thr[t].out, k), runtime)]_vars

C6_Witness ==
    \E t \in ThreadIds :
        /\ Polled(t) /\ thr[t].res = "ok"
        /\ thr[t].out = <<LineB_Dead, LineMalformed, LineA_Up>>
        /\ DOMAIN containers = {"a", "b"}

\* C7 as stated: after a poll of N well-formed and M malformed lines the snapshot
\* holds exactly N records.
C7_ExactlyNRecords ==
    \A t \in ThreadIds :
        (Polled(t) /\ thr[t].res = "ok")
            => Cardinality(DOMAIN containers) = Cardinality(WellFormedAt(thr[t].out))

\* C7 as amended: after a poll the snapshot holds one record per distinct container
\* id among the well-formed lines, so exactly N when the N ids differ; every
\* malformed line is skipped on its own.
C7_OneRecordPerDistinctId ==
    \A t \in ThreadIds :
        (Polled(t) /\ thr[t].res = "ok")
            => /\ Cardinality(DOMAIN containers) = Cardinality(IdsOf(thr[t].out))
               /\ Cardinality(IdsOf(thr[t].out)) = Cardinality(WellFormedAt(thr[t].out))
                    => Cardinality(DOMAIN containers) = Cardinality(WellFormedAt(thr[t].out))

C7_Witness ==
    \E t \in ThreadIds :
        /\ Polled(t) /\ thr[t].res = "ok"
        /\ thr[t].out = <<LineMalformed, LineA_Up, LineB_Exited>>
        /\ Cardinality(DOMAIN containers) = 2

\* C8: after a poll of one container reported running and another reported exited the
\* snapshot holds both, as running and stopped; a record's status is never anything
\* but running, stopped or unknown.
C8_RunningAndExited ==
    /\ \A k \in DOMAIN containers : containers[k].status \in {"running", "stopped", "unknown"}
    /\ \A t \in ThreadIds :
          (/\ Polled(t) /\ thr[t].res = "ok"
           /\ Len(thr[t].out) = 2
           /\ \E i, j \in 1 .. 2 :
                 /\ WellFormed(thr[t].out[i]) /\ WellFormed(thr[t].out[j])
                 /\ ContainerIdOf(thr[t].out[i]) # ContainerIdOf(thr[t].out[j])
                 /\ thr[t].out[i].status = StUp2h
                 /\ thr[t].out[j].status = StExited0)
            => \E i, j \in 1 .. 2 :
                 /\ thr[t].out[i].status = StUp2h
                 /\ thr[t].out[j].status = StExited0
                 /\ DOMAIN containers = {ContainerIdOf(thr[t].out[i]), ContainerIdOf(thr[t].out[j])}
                 /\ containers[ContainerIdOf(thr[t].out[i])].status = "running"
                 /\ containers[ContainerIdOf(thr[t].out[j])].status = "stopped"

C8_Witness ==
    \E t \in ThreadIds :
        /\ Polled(t) /\ thr[t].res = "ok"
        /\ thr[t].out = <<LineB_Exited, LineA_Up>>
        /\ containers["a"].status = "running" /\ containers["b"].status = "stopped"

\* C9: when stop() returns from its join, the loop thread it waited for has ended.
C9_StopEndsLoop ==
    [][\A s \in Sessions :
          (ses[s].pc = "stop_wait" /\ ses'[s].pc = "idle")
              => thr'[ses[s].join].pc = "dead"]_vars

\* C10: a mutating call runs its engine command at most once, and returns False
\* whenever that one run exits non-zero or cannot be launched.
C10_SingleAttempt ==
    \A s \in Sessions :
        /\ ses[s].cmds <= 1
        /\ (Returned(s) /\ ses[s].cmdRes \in {"nonzero", "raise"})
             => (ses[s].ret = "False" /\ ses[s].cmds = 1)

C10_Witness ==
    \E s \in Sessions :
        /\ Returned(s) /\ ses[s].op = "run_compose" /\ ses[s].cmdRes = "raise"
        /\ ses[s].ret = "False" /\ ses[s].cmds = 1

\* C11: without a container engine every operation of the manager is a no-op: the
\* loop and the calls never reach a CLI command, the snapshot stays as it was
\* constructed, start/stop/restart/compose return False and logs the empty text.
C11_NoEngineNoOp ==
    runtime = "none" =>
        /\ containers = EmptyMap
        /\ \A t \in ThreadIds : thr[t].pc \notin {"cli", "parse"}
        /\ \A s \in Sessions :
              /\ ses[s].pc \notin {"op_cmd", "op_ps", "op_pub", "logs_cmd"}
              /\ ses[s].cmds = 0 /\ ses[s].polls = 0
              /\ Returned(s) => ses[s].ret = "False"
              /\ (ses[s].pc = "idle" /\ ses[s].op = "get_container_logs") => ses[s].ret = ""

C11_Witness ==
    /\ runtime = "none"
    /\ \E t \in ThreadIds : thr[t].pc = "sleep"
    /\ Returned(Main) /\ ses[Main].op = "run_compose" /\ ses[Main].ret = "False"

\* C12: start_container(id) for an id that names no container returns False, no
\* exception leaves the call, and no step of the call assigns the snapshot.
C12_StartUnknownIdFails ==
    [][\A s \in Sessions :
          (ses'[s] # ses[s] /\ ses'[s].op = "start_container" /\ ses'[s].arg = "z")
              => /\ containers' = containers
                 /\ ses'[s].pc \in {"idle", "op_cmd"}
                 /\ ses'[s].pc = "idle" => ses'[s].ret = "False"]_vars

C12_Witness ==
    /\ Returned(Main) /\ ses[Main].op = "start_container" /\ ses[Main].arg = "z"
    /\ ses[Main].cmds = 1 /\ ses[Main].cmdRes = "nonzero" /\ ses[Main].ret = "False"
    /\ containers # EmptyMap

\* The thread or session assigns the snapshot in this step, from the output `out`.
Publishes(before, after, out) ==
    /\ before.res = "ok"
    /\ before.pc \in {"parse", "op_pub"} /\ after.pc \notin {"parse", "op_pub"}
    /\ containers' = ParseLines(out, EmptyMap, runtime)

\* C13: the snapshot changes only by one assignment of the map of a complete poll
\* (scheduled or re-poll), and a read returns the snapshot as it is published at
\* that moment: no reader sees the records of part of an output.
C13_ReadersSeeCompleteSnapshots ==
    [][/\ containers' # containers =>
            \/ \E t \in ThreadIds : Publishes(thr[t], thr'[t], thr[t].out)
            \/ \E s \in Sessions : Publishes(ses[s], ses'[s], ses[s].out)
       /\ \A s \in Sessions :
            (ses'[s] # ses[s] /\ ses'[s].op = "get_containers") => ses'[s].seen = containers
       /\ \A s \in Sessions :
            (ses'[s] # ses[s] /\ ses'[s].op = "get_container")
                => \/ ses'[s].seen = EmptyMap /\ ses'[s].arg \notin DOMAIN containers
                   \/ /\ DOMAIN ses'[s].seen = {ses'[s].arg}
                      /\ ses'[s].seen[ses'[s].arg] = containers[ses'[s].arg]]_vars

C13_Witness ==
    \E t \in ThreadIds :
        /\ thr[t].pc = "parse" /\ thr[t].out = <<LineB_Exited, LineA_Up>> /\ thr[t].idx = 2
        /\ DOMAIN thr[t].new = {"b"}
        /\ DOMAIN containers = {"a"}
        /\ ses[Reader].op = "get_containers" /\ ses[Reader].seen = containers

\* The tick of loop thread t has met a failure: the CLI call of the poll failed, or
\* the callback called last raised.
Failed(t) ==
    \/ thr[t].pc = "parse" /\ thr[t].res \in {"nonzero", "raise"}
    \/ thr[t].pc = "notify" /\ thr[t].cb = "raised"

\* C14: no failure ends the polling loop.  A loop thread ends only with the flag
\* down; after a poll, failed or not, it goes on to the callbacks; after a callback,
\* raised or not, it goes on to the next one and after the last one to sleep and to
\* the next tick; and a tick that has met a failure is followed by the next tick.
C14_NoFailureEndsLoop ==
    /\ [][\A t \in ThreadIds :
             /\ (thr[t].pc # "dead" /\ thr'[t].pc = "dead") => ~running
             /\ (thr[t].pc = "parse" /\ thr'[t] # thr[t])
                   => (thr'[t].pc = "notify" /\ thr'[t].idx = 1)
             /\ (thr[t].pc = "notify" /\ thr'[t] # thr[t])
                   => IF thr[t].idx <= Len(update_callbacks)
                      THEN thr'[t].pc = "notify" /\ thr'[t].idx = thr[t].idx + 1
                      ELSE thr'[t].pc = "sleep"
             /\ (thr[t].pc = "sleep" /\ thr'[t] # thr[t]) => thr'[t].pc = "check"]_vars
    /\ \A t \in ThreadIds : Failed(t) ~> (thr[t].pc = "check")

C14_Witness ==
    \E t \in ThreadIds :
        /\ running /\ thr[t].pc = "notify" /\ thr[t].res = "nonzero"
        /\ thr[t].cb = "raised" /\ thr[t].idx = 2 /\ Len(update_callbacks) = 2

AppleVariants ==
    { "M1_BASE", "M1_PRO", "M1_MAX", "M1_ULTRA", "M2_BASE", "M2_PRO", "M2_MAX", "M2_ULTRA",
      "M3_BASE", "M3_PRO", "M3_MAX", "M4_BASE", "M4_PRO", "M4_MAX", "UNKNOWN" }

JetsonModels ==
    { "orin_nano_4gb", "orin_nano_8gb", "orin_nx_8gb", "orin_nx_16gb", "agx_32gb",
      "agx_64gb", "unknown" }

\* The values each function documents.
Documented(f) ==
    CASE f = "detect_platform" -> PLATFORM_TYPES \ {"auto"}
      [] f = "detect_cpu_type" -> CPU_TYPES \ {"auto"}
      [] f = "detect_gpu_type" -> GPU_TYPES \ {"auto"}
      [] f = "detect_apple_silicon_variant" -> AppleVariants
      [] f = "detect_jetson_model" -> JetsonModels

\* C15: whatever the probes give, what detect_platform, detect_cpu_type,
\* detect_gpu_type, detect_apple_silicon_variant and detect_jetson_model return is a
\* value of the function's documented enumeration.
C15_ResultInEnumeration ==
    call.fn \in { "detect_platform", "detect_cpu_type", "detect_gpu_type",
                  "detect_apple_silicon_variant", "detect_jetson_model" }
        => (call.result # Raises => call.result \in Documented(call.fn))

\* C16: no detection function raises: a call of detect_os, detect_cpu_type,
\* detect_gpu_type, detect_platform, detect_jetson_model, detect_container_engine or
\* detect_container_runtime returns a classification, whatever probe fails.
C16_NoDetectorRaises ==
    call.fn \in { "detect_os", "detect_cpu_type", "detect_gpu_type", "detect_platform",
                  "detect_jetson_model", "detect_container_engine",
                  "detect_container_runtime" }
        => call.result # Raises

ComposeArgs(file, project, up) ==
    CASE project = "" /\ up -> <<"-f", file, "up", "-d">>
      [] project = "" /\ ~up -> <<"-f", file, "down">>
      [] project # "" /\ up -> <<"-f", file, "-p", project, "up", "-d">>
      [] project # "" /\ ~up -> <<"-f", file, "-p", project, "down">>

\* C18 as stated: with an engine detected, run_compose invokes exactly one command,
\* `<engine> compose -f <file> [-p <project>] up -d` or `... down`.
C18_EngineComposeSubcommand ==
    (Returned(Main) /\ ses[Main].op = "run_compose" /\ runtime # "none")
        => compose.cmds =
             << <<runtime, "compose">> \o ComposeArgs(compose.file, compose.project, compose.up) >>

\* C18 as amended: with an engine detected, run_compose invokes exactly one command,
\* `docker-compose -f <file> [-p <project>] up -d` or `... down` for Docker and
\* `podman-compose ...` for Podman (the stand-alone compose program, not the engine
\* binary with a compose subcommand); `-p <project>` is present iff a project name
\* is given and `-d` iff up; without an engine it invokes none.
C18_StandaloneComposeProgram ==
    /\ Len(compose.cmds) <= 1
    /\ (Returned(Main) /\ ses[Main].op = "run_compose")
          => compose.cmds =
               IF runtime = "none" THEN <<>>
               ELSE << <<IF runtime = "docker" THEN "docker-compose" ELSE "podman-compose">>
                         \o ComposeArgs(compose.file, compose.project, compose.up) >>

C18_Witness ==
    /\ Returned(Main) /\ ses[Main].op = "run_compose" /\ ses[Main].ret = "True"
    /\ compose.cmds = << <<"podman-compose", "-f", "/srv/stack.yml", "-p", "lab", "up", "-d">> >>

\* C19 as stated: once "Save Path" has been clicked, the environment file holds
\* exactly one line, SINGULARITY_DRIVE=<the path saved last>.
C19_FileHoldsLastSavedPath ==
    lab.saved # "none" => lab.env_file = <<EnvLine(lab.drive_path)>>

\* C19 as amended: after a "Save Path" whose write succeeds the environment file
\* holds exactly one line, SINGULARITY_DRIVE=<that path>, and nothing of what it
\* held before; a save whose open fails leaves the file as it was (it may hold an
\* earlier path or foreign lines), and one whose write fails leaves it empty.
C19_FileHoldsLastWrittenPath ==
    [][/\ lab'.saved = "ok" => lab'.env_file = <<EnvLine(lab'.drive_path)>>
       /\ lab'.saved = "write_fails" => lab'.env_file = <<>>
       /\ lab'.saved = "open_fails" => lab'.env_file = lab.env_file]_vars

C19_Witness ==
    /\ lab.saved = "ok" /\ lab.drive_path = "/mnt/drive"
    /\ lab.env_file = <<EnvLine("/mnt/drive")>>
    /\ {"/data", "/mnt/drive"} \subseteq lab.dirs

PerfPolling == perf.running /\ perf.alive

\* C20: in a rerun of a session whose first run started both monitors, the
\* performance monitor and the container poller are both Polling.
C20_MonitorsSurviveReruns ==
    \A s \in Sessions :
        (script[s].pc = "body" /\ script[s].rerun /\ script[s].started)
            => (Polling /\ PerfPolling)

\* C21: every click of a start, stop or restart button of a container in the
\* snapshot has led to one call of the matching operation for that container.
C21_EveryClickInvokes == ui.last.action # "none" => ui.last.invoked

\* C22: what get_metrics() returned holds cpu, memory, gpu and disk values of one
\* and the same update cycle.
C22_MetricsOfOneCycle ==
    metrics.seen.read
        => /\ metrics.seen.cpu = metrics.seen.memory
           /\ metrics.seen.memory = metrics.seen.gpu
           /\ metrics.seen.gpu = metrics.seen.disk

\* The snapshot a poll of the engine as it is now would publish.
SnapshotOf(eng) == ParseLines(CHOOSE out \in PsOutputs(eng) : TRUE, EmptyMap, runtime)

UpToDate == containers = SnapshotOf(engine)

\* C23: the published snapshot never regresses: once start, stop or restart has
\* returned True and the snapshot shows the engine's state after the command, no
\* assignment replaces it by another state while the engine stays as it is.
C23_SnapshotNeverRegresses ==
    [][(/\ Returned(Main) /\ ses[Main].op \in ContainerOps /\ ses[Main].ret = "True"
        /\ ses[Main].polls = 1
        /\ UpToDate
        /\ containers' # containers) => UpToDate']_vars

\* How often callback c was called in the tick of loop thread t.
TimesCalled(t, c) ==
    Cardinality({ i \in 1 .. Len(thr[t].called) : thr[t].called[i] = c })

\* C24: when a tick's notification is over, each callback that is still registered
\* (and so was registered for the whole tick) has been called exactly once in it.
C24_RegisteredCallbacksCalledOnce ==
    \A t \in ThreadIds :
        thr[t].pc = "sleep"
            => \A i \in 1 .. Len(update_callbacks) :
                  TimesCalled(t, update_callbacks[i]) = 1

\* C25: when "Exit (Stop All Containers)" has reported that all containers are
\* stopped, a stop was issued for every running container of the snapshot; after
\* "Exit (Keep Containers Running)" no stop was issued.
C25_StopAllStopsEveryContainer ==
    /\ (ui.exit.choice = "stop_all" /\ ui.exit.reported)
          => ui.exit.running \subseteq ui.exit.stopped
    /\ ui.exit.choice = "keep" => ui.exit.stopped = {}

\* C26: on every machine the engine detect_container_engine names is the runtime
\* detect_container_runtime gives the ContainerManager.
C26_SameEngineShownAndUsed ==
    call.fn \in {"detect_container_engine", "detect_container_runtime"}
        => detect_container_engine(host) = detect_container_runtime(host)

\* The k-th task handed to submit_task has been run by the worker, which has stored
\* completed or error for it.
Finished(k) == Len(atm.subs) >= k /\ atm.subs[k].done

\* C27: every submitted task eventually reaches status completed or error; it is
\* checked for the tasks that no shutdown() follows, those submitted after the
\* last shutdown() among them.
C27_EveryTaskFinishes ==
    \A k \in 1 .. MaxTasks :
        (Len(atm.subs) >= k) ~> (Finished(k) \/ (Len(atm.subs) >= k /\ atm.subs[k].cut))

\* The ids submit_task can return.
TaskIds == { TaskId(now, fn) : now \in 0 .. MaxTime, fn \in Funcs }

\* C28: get_task_result reports pending for a submitted task the worker has not run
\* yet, that task's own outcome once the worker has run it, and unknown for an id
\* that was never submitted.
C28_ResultFollowsTask ==
    /\ \A k \in 1 .. Len(atm.subs) :
          TaskResult(atm, atm.subs[k].id) =
             IF atm.subs[k].done THEN Outcome(k, atm.subs[k].behaviour) ELSE Pending
    /\ \A id \in TaskIds :
          (\A k \in 1 .. Len(atm.subs) : atm.subs[k].id # id) => TaskResult(atm, id) = Unknown

\* C29: every task id with a stored result is a tracked task.
C29_ResultsAreTracked == DOMAIN atm.results \subseteq DOMAIN atm.tasks

\* An execution of the same function with the same arguments was cached less than
\* ttl seconds before now, since the last clear_cache().
CachedRecently(c) ==
    \E e \in cache.executions :
        /\ e.fn = c.fn /\ e.args = c.args /\ e.kw = KwSet(c.kwargs)
        /\ cache.now - e.time < Ttl(c.fn)

\* C30: a call of a decorated function executes the function exactly when no
\* execution with the same arguments was cached less than ttl seconds earlier since
\* the last clear_cache(), and returns the function's result for its arguments.
C30_ExecutesIffNotCached ==
    [][cache'.flip # cache.flip
          => /\ cache'.last.executed <=> ~CachedRecently(cache'.last.call)
             /\ cache'.last.ret = ResultOf(cache'.last.call)]_vars

====
